---- MODULE Spec2Model ----
(***************************************************************************)
(* Quaternion calculator (Angular 4 / @ngrx/store).                        *)
(*                                                                         *)
(* The module models                                                       *)
(*   - JavaScript numbers as exact extended rationals (finite rationals,   *)
(*     NaN, +Infinity, -Infinity),                                         *)
(*   - the Q value holder (state/definitions/Q.ts),                        *)
(*   - the TSMT$Quaternion engine (libs/Quaternion.ts),                    *)
(*   - the QCalc dispatcher with its two static scratch engines,           *)
(*   - the two reducers, the combined store and the root component's       *)
(*     event handlers.                                                     *)
(*                                                                         *)
(* Seven specifications share the variables:                               *)
(*   Spec      the application: store, components, user events             *)
(*   SpecCalc  a sequence of QCalc calls on operands drawn from a sample   *)
(*   SpecQ     one Q object under its constructor and setters              *)
(*   SpecEngine  one engine under its operations                           *)
(*   SpecConc  two callers of QCalc, statement by statement                *)
(*   SpecClone Q and QInputs objects under clone and assignment            *)
(*   SpecReducers  the two reducers on objects                             *)
(***************************************************************************)
EXTENDS Integers, Sequences, FiniteSets, TLC

VARIABLES
  Q1, Q2,             \* QCalc.Q1, QCalc.Q2: the static scratch engines (_q arrays)
  a, b, calls,        \* SpecCalc: the two operands given, and the QCalc calls made so far
  qobj, qprev, qcall, \* SpecQ: a Q object, its value before the latest call, the latest call
  inputs, memory,     \* the store's two slices
  _op, _save, _quat1, _quat2,  \* AppComponent fields
  disp,               \* the two QuaternionComponents' displayed w, i, j, k
  failed,             \* a reducer threw: the store's state stream has ended
  loaded,             \* the model (assets/model.json) has been delivered
  lastEv,             \* the latest user event and its arguments
  dlog,               \* the dispatches the latest event caused, in order, each with the slices it left
  eng, earg, ecall,   \* SpecEngine: an engine, the engine last passed to it, the latest call on it
  conc, exclusive,    \* SpecConc: the callers of QCalc; whether a call runs to completion
  heap, hclones, hlast  \* SpecClone: the objects, the clones made, the latest operation

vars == <<Q1, Q2, a, b, calls, qobj, qprev, qcall, inputs, memory,
          _op, _save, _quat1, _quat2, disp, failed, loaded, lastEv, dlog,
          eng, earg, ecall, conc, exclusive, heap, hclones, hlast>>

calcVars == <<a, b, calls>>
qVars    == <<qobj, qprev, qcall>>
appVars  == <<inputs, memory, _op, _save, _quat1, _quat2, disp, failed, loaded, lastEv, dlog>>
engVars  == <<eng, earg, ecall>>
concVars == <<conc, exclusive>>
heapVars == <<heap, hclones, hlast>>

-----------------------------------------------------------------------------
(* Bounds *)

\* SpecCalc draws its two operands from the first NumOperands entries of Operands
NumOperands == 11
\* number of QCalc calls in one SpecCalc run
MaxCalls == 2
\* the user types the first NumTyped entries of Typed into a quaternion component
NumTyped == 1
\* setter arguments of SpecQ range over -MaxVal..MaxVal and the non-finite values
MaxVal == 1
\* SpecEngine loads the engine from the first NumEngines entries of EngineSamples
NumEngines == 8
\* number of engine calls in one SpecEngine run
MaxEngCalls == 1
\* SpecClone assigns while fewer than MaxOps operations (clone, assignments) were made
MaxOps == 2
\* number of reducer calls in one SpecReducers run
MaxReductions == 1

-----------------------------------------------------------------------------
(* JavaScript numbers.  <<n, d>> with d > 0 and gcd(n, d) = 1 is the finite *)
(* number n/d; <<0,0>> is NaN, <<1,0>> +Infinity, <<-1,0>> -Infinity.       *)
(* Finite arithmetic is exact (no rounding); signed zero is not modelled.   *)

RECURSIVE GCD(_, _)
GCD(m, n) == IF n = 0 THEN m ELSE GCD(n, m % n)

IAbs(n) == IF n < 0 THEN -n ELSE n
ISgn(n) == IF n < 0 THEN -1 ELSE IF n > 0 THEN 1 ELSE 0

Rat(n, d) ==
  LET g == GCD(IAbs(n), d) IN <<n \div g, d \div g>>

Num(n) == <<n, 1>>
NaN    == <<0, 0>>
PosInf == <<1, 0>>
NegInf == <<-1, 0>>
Zero   == Num(0)
One    == Num(1)

isNaN(x)    == x = NaN
isFinite(x) == x[2] # 0

NumNeg(x) == <<-x[1], x[2]>>
NumAbs(x) == <<IAbs(x[1]), x[2]>>

NumAdd(x, y) ==
  IF isFinite(x) /\ isFinite(y) THEN Rat(x[1]*y[2] + y[1]*x[2], x[2]*y[2])
  ELSE IF isNaN(x) \/ isNaN(y) THEN NaN
  ELSE IF isFinite(y) THEN x
  ELSE IF isFinite(x) THEN y
  ELSE IF x = y THEN x ELSE NaN

NumSub(x, y) == NumAdd(x, NumNeg(y))

NumMul(x, y) ==
  IF isFinite(x) /\ isFinite(y) THEN Rat(x[1]*y[1], x[2]*y[2])
  ELSE <<ISgn(x[1]) * ISgn(y[1]), 0>>

\* 1/x
NumRecip(x) ==
  IF isNaN(x) THEN NaN
  ELSE IF ~isFinite(x) THEN Zero
  ELSE IF x[1] = 0 THEN PosInf
  ELSE <<ISgn(x[1]) * x[2], IAbs(x[1])>>

NumLt(x, y) ==
  IF isNaN(x) \/ isNaN(y) THEN FALSE
  ELSE IF isFinite(x) /\ isFinite(y) THEN x[1]*y[2] < y[1]*x[2]
  ELSE (IF isFinite(x) THEN 0 ELSE x[1]) < (IF isFinite(y) THEN 0 ELSE y[1])

\* 0.0000000001 = 1 / (EpsRootInv * EpsRootInv)
EpsRootInv == 100000

\* Math.abs(x) < 0.0000000001, that is |n| * 10^10 < d, evaluated without
\* forming a product
NearZero(x) ==
  /\ isFinite(x)
  /\ IAbs(x[1]) <= ((x[2] - 1) \div EpsRootInv) \div EpsRootInv

Half == Rat(1, 2)

\* Math.max(x, y) and Math.min(x, y)
Math_max(x, y) == IF isNaN(x) \/ isNaN(y) THEN NaN ELSE IF NumLt(x, y) THEN y ELSE x
Math_min(x, y) == IF isNaN(x) \/ isNaN(y) THEN NaN ELSE IF NumLt(y, x) THEN y ELSE x

\* Math.sqrt is modelled where its value is a number of the model: on NaN, the
\* infinities, negative numbers and squares of rationals.  SqrtExact(x) says
\* that x is such an argument; an operation is modelled only on inputs for
\* which every square root it takes is exact.
IsSquareNat(n) == \E r \in 0..n : r * r = n
ISqrt(n) == CHOOSE r \in 0..n : r * r = n

SqrtExact(x) ==
  \/ ~isFinite(x)
  \/ x[1] < 0
  \/ IsSquareNat(x[1]) /\ IsSquareNat(x[2])

Math_sqrt(x) ==
  IF isNaN(x) \/ x = NegInf THEN NaN
  ELSE IF x = PosInf THEN PosInf
  ELSE IF x[1] < 0 THEN NaN
  ELSE <<ISqrt(x[1]), ISqrt(x[2])>>

\* Angles are held in units of pi: the number x stands for x*pi radians.
\* Math.sin and Math.cos are modelled on the multiples of pi/6 at which they
\* are rational, Math.acos on the arguments whose value is such an angle.
\* x*pi as a multiple of pi/6, reduced to one turn; -1 when it is not one
Twelfth(x) == IF x[2] \in {1, 2, 3, 6} THEN (x[1] * (6 \div x[2])) % 12 ELSE -1

SinExact(x) ==
  \/ ~isFinite(x)
  \/ Twelfth(x) \in {0, 1, 3, 5, 6, 7, 9, 11}

CosExact(x) == SinExact(NumAdd(x, Half))

Math_sin(x) ==
  IF ~isFinite(x) THEN NaN
  ELSE CASE Twelfth(x) \in {0, 6}  -> Zero
         [] Twelfth(x) \in {1, 5}  -> Half
         [] Twelfth(x) = 3         -> One
         [] Twelfth(x) \in {7, 11} -> NumNeg(Half)
         [] Twelfth(x) = 9         -> Num(-1)

Math_cos(x) == Math_sin(NumAdd(x, Half))

AcosExact(x) ==
  \/ ~isFinite(x)
  \/ NumLt(One, NumAbs(x))
  \/ x \in {One, Half, Zero, NumNeg(Half), Num(-1)}

Math_acos(x) ==
  IF ~isFinite(x) \/ NumLt(One, NumAbs(x)) THEN NaN
  ELSE CASE x = One          -> Zero
         [] x = Half         -> Rat(1, 3)
         [] x = Zero         -> Half
         [] x = NumNeg(Half) -> Rat(2, 3)
         [] x = Num(-1)      -> One

-----------------------------------------------------------------------------
(* Q: the 4-tuple holder of state/definitions/Q.ts *)

\* a value that is undefined in the program (object-typed positions)
UNDEF == [undefined |-> TRUE]

\* the element of a one-element set.  { F(x) : x \in {e} } evaluates e once
\* and names the value x, as a const declaration does.
Only(S) == CHOOSE x \in S : TRUE

Q_fields == {"w", "i", "j", "k"}

\* the setters w, i, j, k
Q_set_nan_only(q, f, value) ==
  IF ~isNaN(value) THEN [q EXCEPT ![f] = value] ELSE q

Q_set(q, f, value) ==
  IF ~isNaN(value) /\ isFinite(value) THEN [q EXCEPT ![f] = value] ELSE q

\* new Q(wValue, iValue, jValue, kValue, _id)
Q_new(wValue, iValue, jValue, kValue, id) ==
  LET q0 == [w |-> Zero, i |-> Zero, j |-> Zero, k |-> Zero, id |-> ""]
      q1 == Q_set(q0, "w", wValue)
      q2 == Q_set(q1, "i", iValue)
      q3 == Q_set(q2, "j", jValue)
      q4 == Q_set(q3, "k", kValue)
  IN  IF id # "undefined" THEN [q4 EXCEPT !.id = id] ELSE q4

Q_clone(q) == Q_new(q.w, q.i, q.j, q.k, q.id)

\* Q from four integers, no id argument
QInt(w, i, j, k) == Q_new(Num(w), Num(i), Num(j), Num(k), "undefined")

-----------------------------------------------------------------------------
(* TSMT$Quaternion: the engine of libs/Quaternion.ts.  An engine is its _q  *)
(* array; the program's _q[0.._q[3] are q[1]..q[4] here.                    *)

\* new TSMT$Quaternion()
NewEngine == <<One, Zero, Zero, Zero>>

\* fromArray(...values)
fromArray_loads3(q, values) ==
  IF Len(values) < 3 THEN q
  ELSE IF Len(values) = 3 THEN <<One, values[1], values[2], values[3]>>
  ELSE <<q[1], values[2], values[3], values[4]>>

fromArray(q, values) ==
  IF Len(values) < 3 THEN q
  ELSE IF Len(values) = 3 THEN <<One, values[1], values[2], values[3]>>
  ELSE <<values[1], values[2], values[3], values[4]>>

\* toArray() and the values getter: a copy of _q
toArray(q) == q

\* clone()
clone(q) == fromArray(NewEngine, <<q[1], q[2], q[3], q[4]>>)

\* add(q): s is overwritten by s + t
add_k_dropped(s, t) ==
  <<NumAdd(s[1], t[1]), NumAdd(s[2], t[2]), NumAdd(s[3], t[3]), s[4]>>

add(s, t) ==
  <<NumAdd(s[1], t[1]), NumAdd(s[2], t[2]), NumAdd(s[3], t[3]), NumAdd(s[4], t[4])>>

\* subtract(q): s is overwritten by s - t
subtract(s, t) ==
  <<NumSub(s[1], t[1]), NumSub(s[2], t[2]), NumSub(s[3], t[3]), NumSub(s[4], t[4])>>

\* addTo(q): s + q in a new engine
addTo(s, q) == add(clone(s), q)

\* subtractFrom(q): s - q in a new engine
subtractFrom(s, q) == subtract(clone(s), q)

\* multiply(q): s is overwritten by s*q
multiply_swapped(s, q) ==
  LET aW == q[1]  aX == q[2]  aY == q[3]  aZ == q[4]
      bW == s[1]  bX == s[2]  bY == s[3]  bZ == s[4]
  IN  << NumSub(NumSub(NumSub(NumMul(aW,bW), NumMul(aX,bX)), NumMul(aY,bY)), NumMul(aZ,bZ)),
         NumSub(NumAdd(NumAdd(NumMul(aW,bX), NumMul(aX,bW)), NumMul(aY,bZ)), NumMul(aZ,bY)),
         NumAdd(NumAdd(NumSub(NumMul(aW,bY), NumMul(aX,bZ)), NumMul(aY,bW)), NumMul(aZ,bX)),
         NumAdd(NumSub(NumAdd(NumMul(aW,bZ), NumMul(aX,bY)), NumMul(aY,bX)), NumMul(aZ,bW)) >>

multiply(s, q) ==
  LET aW == s[1]  aX == s[2]  aY == s[3]  aZ == s[4]
      bW == q[1]  bX == q[2]  bY == q[3]  bZ == q[4]
  IN  << NumSub(NumSub(NumSub(NumMul(aW,bW), NumMul(aX,bX)), NumMul(aY,bY)), NumMul(aZ,bZ)),
         NumSub(NumAdd(NumAdd(NumMul(aW,bX), NumMul(aX,bW)), NumMul(aY,bZ)), NumMul(aZ,bY)),
         NumAdd(NumAdd(NumSub(NumMul(aW,bY), NumMul(aX,bZ)), NumMul(aY,bW)), NumMul(aZ,bX)),
         NumAdd(NumSub(NumAdd(NumMul(aW,bZ), NumMul(aX,bY)), NumMul(aY,bX)), NumMul(aZ,bW)) >>

\* multiplyInto(q): s*q in a new engine
multiplyInto(s, q) == multiply(clone(s), q)

\* invert()
invert(q) ==
  LET q0 == q[1]  q1 == q[2]  q2 == q[3]  q3 == q[4]
      l  == NumAdd(NumAdd(NumAdd(NumMul(q0,q0), NumMul(q1,q1)), NumMul(q2,q2)), NumMul(q3,q3))
      d  == IF NearZero(l) THEN One ELSE NumRecip(l)
  IN  << NumMul(NumNeg(q0), d), NumMul(NumNeg(q1), d), NumMul(NumNeg(q2), d), NumMul(q3, d) >>

\* inverse(): the inverse in a new engine
inverse(q) == invert(clone(q))

\* divide(q): s is overwritten by s / q
divide(s, q) ==
  LET q1 == invert(clone(q)) IN multiply(s, q1)

\* divideInto(q): s / q in a new engine
divideInto(s, q) == divide(clone(s), q)

\* x >= y and x > 0.0000000001 in absolute value, as JavaScript compares (false on NaN)
NumGe(x, y) == ~isNaN(x) /\ ~isNaN(y) /\ ~NumLt(x, y)
AboveEps(x) == ~isNaN(x) /\ ~NearZero(x)

\* arr[n] of a JavaScript array of numbers: undefined past the end, which
\* arithmetic turns into NaN and the Q setters treat as they treat NaN
Elem(arr, n) == IF n < Len(arr) THEN arr[n + 1] ELSE NaN

\* multiplyByScalar(a)
multiplyByScalar(q, s) ==
  <<NumMul(q[1], s), NumMul(q[2], s), NumMul(q[3], s), NumMul(q[4], s)>>

\* the argument of Math.sqrt in length()
SumSq(q) ==
  NumAdd(NumAdd(NumAdd(NumMul(q[1],q[1]), NumMul(q[2],q[2])), NumMul(q[3],q[3])), NumMul(q[4],q[4]))

\* length()
length(q) == Math_sqrt(SumSq(q))

\* normalize()
normalize_by_square(q) ==
  LET l == SumSq(q)
      d == IF NearZero(l) THEN One ELSE NumRecip(l)
  IN  <<NumMul(q[1], d), NumMul(q[2], d), NumMul(q[3], d), NumMul(q[4], d)>>

normalize(q) ==
  LET l == length(q)
      d == IF NearZero(l) THEN One ELSE NumRecip(l)
  IN  <<NumMul(q[1], d), NumMul(q[2], d), NumMul(q[3], d), NumMul(q[4], d)>>

\* dot(q)
dot(s, q) ==
  LET t == toArray(q)
  IN  NumAdd(NumAdd(NumAdd(NumMul(t[1],s[1]), NumMul(t[2],s[2])), NumMul(t[3],s[3])), NumMul(t[4],s[4]))

\* the argument of Math.sqrt in fromAxisRotation(axis, angle)
AxisSumSq(axis) ==
  NumAdd(NumAdd(NumMul(Elem(axis,0), Elem(axis,0)), NumMul(Elem(axis,1), Elem(axis,1))),
         NumMul(Elem(axis,2), Elem(axis,2)))

\* fromAxisRotation(axis, angle)
fromAxisRotation(q, axis, angle) ==
  LET l == IF Len(axis) = 3 THEN Math_sqrt(AxisSumSq(axis)) ELSE Zero
      d == IF NearZero(l) THEN Num(100000) ELSE NumRecip(l)
      h == NumMul(Half, angle)
      c == Math_cos(h)
      s == NumMul(Math_sin(h), d)
  IN  <<c, NumMul(s, Elem(axis,0)), NumMul(s, Elem(axis,1)), NumMul(s, Elem(axis,2))>>

\* x / y
NumDiv(x, y) == NumMul(x, NumRecip(y))

\* m[r][c] of an array of arrays, r and c counted from 0
Entry(m, r, c) == Elem(m[r + 1], c)

\* fromRotationMatrix(m): the indices u, v, w it chooses
RotationPivot(m) ==
  IF NumLt(Entry(m,1,1), Entry(m,0,0)) /\ NumLt(Entry(m,2,2), Entry(m,0,0)) THEN <<0, 1, 2>>
  ELSE IF NumLt(Entry(m,0,0), Entry(m,1,1)) /\ NumLt(Entry(m,2,2), Entry(m,1,1)) THEN <<1, 2, 0>>
  ELSE <<2, 0, 1>>

\* the argument of Math.sqrt in fromRotationMatrix(m)
RotationRadicand(m) ==
  LET u == RotationPivot(m)[1]  v == RotationPivot(m)[2]  w == RotationPivot(m)[3]
  IN  NumSub(NumSub(NumAdd(One, Entry(m,u,u)), Entry(m,v,v)), Entry(m,w,w))

\* fromRotationMatrix(m)
fromRotationMatrix(q, m) ==
  IF Len(m) # 3 THEN q
  ELSE
    LET u  == RotationPivot(m)[1]  v == RotationPivot(m)[2]  w == RotationPivot(m)[3]
        r0 == Math_sqrt(RotationRadicand(m))
        r  == NumDiv(Half, r0)
    IN  [q EXCEPT ![u + 1] = NumMul(Half, r0),
                  ![v + 1] = NumMul(r, NumAdd(Entry(m,v,u), Entry(m,u,v))),
                  ![w + 1] = NumMul(r, NumAdd(Entry(m,u,w), Entry(m,w,u))),
                  ![4]     = NumMul(r, NumSub(Entry(m,v,w), Entry(m,w,v)))]

\* toRotationMatrix(): three rows, or the empty array
toRotationMatrix(q) ==
  LET qW == q[1]  qX == q[2]  qY == q[3]  qZ == q[4]
      qWqW == NumMul(qW,qW)  qWqX == NumMul(qW,qX)  qWqY == NumMul(qW,qY)  qWqZ == NumMul(qW,qZ)
      qXqX == NumMul(qX,qX)  qXqY == NumMul(qX,qY)  qXqZ == NumMul(qX,qZ)
      qYqY == NumMul(qY,qY)  qYqZ == NumMul(qY,qZ)  qZqZ == NumMul(qZ,qZ)
      d0 == NumAdd(NumAdd(NumAdd(qWqW, qXqX), qYqY), qZqZ)
      d  == NumRecip(d0)
      d2 == NumAdd(d, d)
  IN  IF AboveEps(d0)
      THEN << << NumMul(d, NumSub(NumSub(NumAdd(qWqW, qXqX), qYqY), qZqZ)),
                 NumMul(d2, NumAdd(qWqZ, qXqY)),
                 NumMul(d2, NumSub(qXqZ, qWqY)) >>,
              << NumMul(d2, NumSub(qXqY, qWqZ)),
                 NumMul(d, NumSub(NumAdd(NumSub(qWqW, qXqX), qYqY), qZqZ)),
                 NumMul(d2, NumAdd(qWqX, qYqZ)) >>,
              << NumMul(d2, NumAdd(qWqY, qXqZ)),
                 NumMul(d2, NumSub(qYqZ, qWqX)),
                 NumMul(d, NumAdd(NumSub(NumSub(qWqW, qXqX), qYqY), qZqZ)) >> >>
      ELSE << >>

\* the interpolation parameter after Math.max(0.0, _t) and Math.min(t, 1.0)
Clamp(t) == Math_min(Math_max(Zero, t), One)

\* slerp(q, _t): the value it first assigns to ctheta
slerp_ctheta(s, q) ==
  LET qaw == s[1]  qax == s[3]  qay == s[3]  qaz == s[4]
      bq  == toArray(q)
      qbx == bq[2]  qby == bq[3]  qbz == bq[4]
  IN  NumAdd(NumAdd(NumAdd(NumMul(qax,qbx), NumMul(qay,qby)), NumMul(qaz,qbz)), NumMul(qaw,qaw))

\* slerp(q, _t): the new engine it returns
slerp(s, q, t0) ==
  LET t   == Clamp(t0)
      qt  == clone(s)
      qaw == s[1]  qax == s[3]  qay == s[3]  qaz == s[4]
      bq  == toArray(q)
      c0  == slerp_ctheta(s, q)
  IN  IF NumGe(NumAbs(c0), One) THEN fromArray(qt, <<qax, qay, qaz, qaw>>)
      ELSE
        LET neg    == NumLt(c0, Zero)
            qbw    == IF neg THEN NumNeg(bq[1]) ELSE bq[1]
            qbx    == IF neg THEN NumNeg(bq[2]) ELSE bq[2]
            qby    == IF neg THEN NumNeg(bq[3]) ELSE bq[3]
            qbz    == IF neg THEN NumNeg(bq[4]) ELSE bq[4]
            ctheta == IF neg THEN NumNeg(c0) ELSE c0
            halfTheta    == Math_acos(ctheta)
            sinHalfTheta == Math_sqrt(NumSub(One, NumMul(ctheta, ctheta)))
        IN  IF NumLt(NumAbs(sinHalfTheta), Rat(1, 1000))
            THEN fromArray(qt, << NumAdd(NumMul(qax, Half), NumMul(qbx, Half)),
                                  NumAdd(NumMul(qay, Half), NumMul(qby, Half)),
                                  NumAdd(NumMul(qaz, Half), NumMul(qbz, Half)),
                                  NumAdd(NumMul(qaw, Half), NumMul(qbw, Half)) >>)
            ELSE
              LET rA == NumDiv(Math_sin(NumMul(NumSub(One, t), halfTheta)), sinHalfTheta)
                  rB == NumDiv(Math_sin(NumMul(t, halfTheta)), sinHalfTheta)
              IN  fromArray(qt, << NumAdd(NumMul(qax, rA), NumMul(qbx, rB)),
                                   NumAdd(NumMul(qay, rA), NumMul(qby, rB)),
                                   NumAdd(NumMul(qaz, rA), NumMul(qbz, rB)),
                                   NumAdd(NumMul(qaw, rA), NumMul(qbw, rB)) >>)

\* every Math.acos, Math.sqrt and Math.sin that slerp(q, _t) takes is exact
SlerpExact(s, q, t0) ==
  LET c0 == slerp_ctheta(s, q)
      c  == NumAbs(c0)
      h  == Math_acos(c)
      r  == NumSub(One, NumMul(c, c))
  IN  \/ NumGe(c, One)
      \/ /\ AcosExact(c)
         /\ SqrtExact(r)
         /\ \/ NumLt(NumAbs(Math_sqrt(r)), Rat(1, 1000))
            \/ /\ SinExact(NumMul(NumSub(One, Clamp(t0)), h))
               /\ SinExact(NumMul(Clamp(t0), h))

\* nlerp(q, _t) up to its call of normalize: the engine qt and the argument q,
\* which multiplyByScalar overwrites
nlerp_blend_keeps_sign(s, q, t0) ==
  LET tc == Clamp(t0)
      qt == clone(s)
      t1 == NumSub(One, tc)
      qs == multiplyByScalar(q, tc)
  IN  [qt |-> add(multiplyByScalar(qt, t1), qs), q |-> qs]

nlerp_blend(s, q, t0) ==
  LET tc == Clamp(t0)
      qt == clone(s)
      t1 == NumSub(One, tc)
      t  == IF NumLt(dot(s, q), Zero) THEN NumNeg(tc) ELSE tc
      qs == multiplyByScalar(q, t)
  IN  [qt |-> add(multiplyByScalar(qt, t1), qs), q |-> qs]

\* nlerp(q, _t): the new engine it returns (ret) and what it leaves in q
nlerp(s, q, t0) ==
  [ret |-> normalize(nlerp_blend(s, q, t0).qt), q |-> nlerp_blend(s, q, t0).q]

-----------------------------------------------------------------------------
(* QCalc: the dispatcher of libs/QCalc.ts.  Each operation takes the two    *)
(* operands and the contents of the static engines and yields the result    *)
(* together with the contents the call leaves in the engines.               *)

QCalc_result(e1, e2) ==
  Only({ [result |-> Q_new(values[1], values[2], values[3], values[4], "undefined"),
          Q1 |-> r1, Q2 |-> e2] : r1 \in {e1}, values \in {toArray(e1)} })

QCalc_add(q1, q2, s1, s2) ==
  LET e1 == fromArray(s1, <<q1.w, q1.i, q1.j, q1.k>>)
      e2 == fromArray(s2, <<q2.w, q2.i, q2.j, q2.k>>)
  IN  QCalc_result(add(e1, e2), e2)

QCalc_subtract(q1, q2, s1, s2) ==
  LET e1 == fromArray(s1, <<q1.w, q1.i, q1.j, q1.k>>)
      e2 == fromArray(s2, <<q2.w, q2.i, q2.j, q2.k>>)
  IN  QCalc_result(subtract(e1, e2), e2)

QCalc_multiply(q1, q2, s1, s2) ==
  LET e1 == fromArray(s1, <<q1.w, q1.i, q1.j, q1.k>>)
      e2 == fromArray(s2, <<q2.w, q2.i, q2.j, q2.k>>)
  IN  QCalc_result(multiply(e1, e2), e2)

QCalc_divide(q1, q2, s1, s2) ==
  LET e1 == fromArray(s1, <<q1.w, q1.i, q1.j, q1.k>>)
      e2 == fromArray(s2, <<q2.w, q2.i, q2.j, q2.k>>)
  IN  QCalc_result(divide(e1, e2), e2)

-----------------------------------------------------------------------------
(* SpecCalc: QCalc called repeatedly.  The first operand of a call is the   *)
(* operand a or the previous result, the second the operand b or the        *)
(* previous result; the static engines keep what the previous call left.    *)

Operands ==
  << QInt(1,0,0,0),  QInt(0,1,0,0),  QInt(0,0,1,0),  QInt(0,0,0,1),
     QInt(-1,0,0,0), QInt(0,-1,0,0), QInt(0,0,-1,0), QInt(0,0,0,-1),
     QInt(1,-1,0,-1), QInt(1,2,1,0), QInt(0,0,0,0),  QInt(1,1,1,1),
     QInt(2,0,0,0),  QInt(0,0,3,0),  QInt(2,-1,0,1), QInt(0,2,0,-2) >>

OperandSet == { Operands[n] : n \in 1..NumOperands }

CalcOps == {"add", "subtract", "multiply", "divide"}

QCalc_apply(op, q1, q2, s1, s2) ==
  CASE op = "add"      -> QCalc_add(q1, q2, s1, s2)
    [] op = "subtract" -> QCalc_subtract(q1, q2, s1, s2)
    [] op = "multiply" -> QCalc_multiply(q1, q2, s1, s2)
    [] op = "divide"   -> QCalc_divide(q1, q2, s1, s2)

Firsts  == {a} \cup (IF calls = <<>> THEN {} ELSE {calls[Len(calls)].result})
Seconds == {b} \cup (IF calls = <<>> THEN {} ELSE {calls[Len(calls)].result})

Call(op) ==
  /\ Len(calls) < MaxCalls
  /\ \E q1 \in Firsts, q2 \in Seconds :
       \E r \in { QCalc_apply(op, q1, q2, Q1, Q2) } :
         /\ calls' = Append(calls, [op |-> op, q1 |-> q1, q2 |-> q2, result |-> r.result])
         /\ Q1' = r.Q1
         /\ Q2' = r.Q2
  /\ UNCHANGED <<a, b, qVars, appVars, engVars, concVars, heapVars>>

CallAdd      == Call("add")
CallSubtract == Call("subtract")
CallMultiply == Call("multiply")
CallDivide   == Call("divide")

CalcNext == CallAdd \/ CallSubtract \/ CallMultiply \/ CallDivide

-----------------------------------------------------------------------------
(* state/actions/CalcActions.ts *)

Q_NONE      == "[Calc] None"
Q_ADD       == "[Calc] Add"
Q_SUBTRACT  == "[Calc] Subtract"
Q_MULTIPLY  == "[Calc] Multiply"
Q_DIVIDE    == "[Calc] Divide"
Q_CLEAR     == "[Calc] Clear"
TO_MEMORY   == "[Calc] To_Memory"
FROM_MEMORY == "[Calc] From_Memory"
INIT        == "[Calc] Init"
STORE       == "[Calc] Store"

\* the action @ngrx/store reduces once when the store is created
STORE_INIT  == "@ngrx/store/init"

ArithTypes == {Q_ADD, Q_SUBTRACT, Q_MULTIPLY, Q_DIVIDE}

\* the QCalc method an arithmetic action type selects in the reducer's switch
MethodOf_divide_multiplies(type) ==
  CASE type = Q_ADD      -> "add"
    [] type = Q_SUBTRACT -> "subtract"
    [] type = Q_MULTIPLY -> "multiply"
    [] type = Q_DIVIDE   -> "multiply"

MethodOf(type) ==
  CASE type = Q_ADD      -> "add"
    [] type = Q_SUBTRACT -> "subtract"
    [] type = Q_MULTIPLY -> "multiply"
    [] type = Q_DIVIDE   -> "divide"

\* obj.f for an object-valued property: undefined when obj has no such property
Prop(obj, f) == IF f \in DOMAIN obj THEN obj[f] ELSE UNDEF
\* obj.f for a string-valued property
PropStr(obj, f) == IF f \in DOMAIN obj THEN obj[f] ELSE "undefined"

-----------------------------------------------------------------------------
(* state/definitions/QInputs.ts *)

\* new QInputs()
QInputs_new ==
  [q1 |-> QInt(0,0,0,0), q2 |-> QInt(0,0,0,0), result |-> QInt(0,0,0,0),
   op |-> "none", action |-> "none"]

\* QInputs.clone()
QInputs_clone(q) ==
  [q1 |-> Q_clone(q.q1), q2 |-> Q_clone(q.q2), result |-> Q_clone(q.result),
   op |-> q.op, action |-> q.action]

-----------------------------------------------------------------------------
(* state/reducers: inputReducer and memoryReducer.  A reducer yields        *)
(* threw = TRUE where the program raises a TypeError (a property read or    *)
(* method call on undefined).                                               *)

inputReducer(state, action, s1, s2) ==
  LET p     == action.payload
      hasP  == p # UNDEF
      Throw == [threw |-> TRUE, state |-> state, Q1 |-> s1, Q2 |-> s2]
      q1    == IF hasP THEN Prop(p, "q1")
               ELSE IF state # UNDEF THEN Q_clone(state.q1) ELSE QInt(1,0,0,0)
      q2    == IF hasP THEN Prop(p, "q2")
               ELSE IF state # UNDEF THEN Q_clone(state.q2) ELSE QInt(1,0,0,0)
      op    == IF hasP THEN PropStr(p, "op")
               ELSE IF state # UNDEF THEN state.op ELSE Q_NONE
      qi    == [QInputs_new EXCEPT !.q1 = q1, !.q2 = q2, !.op = op, !.action = action.type]
      Return(st) == [threw |-> FALSE, state |-> st, Q1 |-> s1, Q2 |-> s2]
      Arith(st, m) ==
        IF st.q1 = UNDEF \/ st.q2 = UNDEF THEN Throw
        ELSE Only({ [threw |-> FALSE, state |-> [st EXCEPT !.result = r.result],
                     Q1 |-> r.Q1, Q2 |-> r.Q2] :
                    r \in {QCalc_apply(m, st.q1, st.q2, s1, s2)} })
  IN
  IF ~hasP /\ state # UNDEF /\ (state.q1 = UNDEF \/ state.q2 = UNDEF) THEN Throw
  ELSE IF action.type \in ArithTypes THEN Arith(qi, MethodOf(action.type))
  ELSE IF action.type = Q_CLEAR THEN
    Return([qi EXCEPT !.op = Q_NONE, !.q1 = QInt(1,0,0,0), !.q2 = QInt(1,0,0,0),
                      !.result = QInt(1,0,0,0)])
  ELSE IF action.type = INIT THEN
    IF ~hasP THEN Throw
    ELSE IF Prop(p, "q1") = UNDEF \/ Prop(p, "q2") = UNDEF \/ Prop(p, "result") = UNDEF
    THEN Throw
    ELSE LET q == [QInputs_clone(p) EXCEPT !.action = action.type]
         IN  IF q.op \in ArithTypes THEN Arith(q, MethodOf(q.op)) ELSE Return(q)
  ELSE Return(qi)

\* isNew: the reducer returned a new object (not the prior state itself)
memoryReducer_keeps_id(state, action) ==
  LET p == action.payload
  IN
  IF action.type = TO_MEMORY THEN
    IF p = UNDEF THEN [threw |-> TRUE, state |-> state, isNew |-> FALSE]
    ELSE [threw |-> FALSE, isNew |-> TRUE,
          state |-> [action |-> action.type,
                     id |-> IF state # UNDEF THEN state.id ELSE PropStr(p, "id"),
                     memory |-> Prop(p, "memory")]]
  ELSE IF action.type = FROM_MEMORY THEN
    IF state = UNDEF THEN [threw |-> TRUE, state |-> state, isNew |-> FALSE]
    ELSE [threw |-> FALSE, isNew |-> TRUE,
          state |-> [action |-> FROM_MEMORY, id |-> state.id, memory |-> state.memory]]
  ELSE [threw |-> FALSE, state |-> state, isNew |-> FALSE]

memoryReducer_recall_resets(state, action) ==
  LET p == action.payload
  IN
  IF action.type = TO_MEMORY THEN
    IF p = UNDEF THEN [threw |-> TRUE, state |-> state, isNew |-> FALSE]
    ELSE [threw |-> FALSE, isNew |-> TRUE,
          state |-> [action |-> action.type, id |-> PropStr(p, "id"), memory |-> Prop(p, "memory")]]
  ELSE IF action.type = FROM_MEMORY THEN
    IF state = UNDEF THEN [threw |-> TRUE, state |-> state, isNew |-> FALSE]
    ELSE [threw |-> FALSE, isNew |-> TRUE,
          state |-> [action |-> FROM_MEMORY, id |-> state.id, memory |-> QInt(0,0,0,0)]]
  ELSE [threw |-> FALSE, state |-> state, isNew |-> FALSE]

memoryReducer_tags_action(state, action) ==
  LET p == action.payload
  IN
  IF action.type = TO_MEMORY THEN
    IF p = UNDEF THEN [threw |-> TRUE, state |-> state, isNew |-> FALSE]
    ELSE [threw |-> FALSE, isNew |-> TRUE,
          state |-> [action |-> action.type, id |-> PropStr(p, "id"), memory |-> Prop(p, "memory")]]
  ELSE IF action.type = FROM_MEMORY THEN
    IF state = UNDEF THEN [threw |-> TRUE, state |-> state, isNew |-> FALSE]
    ELSE [threw |-> FALSE, isNew |-> TRUE,
          state |-> [action |-> FROM_MEMORY, id |-> state.id, memory |-> state.memory]]
  ELSE IF state = UNDEF THEN [threw |-> FALSE, state |-> state, isNew |-> FALSE]
  ELSE [threw |-> FALSE, isNew |-> TRUE, state |-> [state EXCEPT !.action = action.type]]

memoryReducer(state, action) ==
  LET p == action.payload
  IN
  IF action.type = TO_MEMORY THEN
    IF p = UNDEF THEN [threw |-> TRUE, state |-> state, isNew |-> FALSE]
    ELSE [threw |-> FALSE, isNew |-> TRUE,
          state |-> [action |-> action.type, id |-> PropStr(p, "id"), memory |-> Prop(p, "memory")]]
  ELSE IF action.type = FROM_MEMORY THEN
    IF state = UNDEF THEN [threw |-> TRUE, state |-> state, isNew |-> FALSE]
    ELSE [threw |-> FALSE, isNew |-> TRUE,
          state |-> [action |-> FROM_MEMORY, id |-> state.id, memory |-> state.memory]]
  ELSE [threw |-> FALSE, state |-> state, isNew |-> FALSE]

-----------------------------------------------------------------------------
(* The store and its subscribers.  A world W is the record of everything an *)
(* event handler can change: the store's slices, the static engines, the    *)
(* root component's fields and the two quaternion components' displays.     *)

QIds == {"q1", "q2"}

\* AppComponent.__onInputs
App_onInputs(W) ==
  IF W.inputs.q1 # UNDEF /\ W.inputs.q2 # UNDEF
  THEN [W EXCEPT !._quat1 = Q_clone(W.inputs.q1), !._quat2 = Q_clone(W.inputs.q2)]
  ELSE W

\* AppComponent.__update: the actions it dispatches
App_update(W, qi) ==
  CASE W._op = "add" -> << [type |-> Q_ADD,      payload |-> qi] >>
    [] W._op = "sub" -> << [type |-> Q_SUBTRACT, payload |-> qi] >>
    [] W._op = "mul" -> << [type |-> Q_MULTIPLY, payload |-> qi] >>
    [] W._op = "div" -> << [type |-> Q_DIVIDE,   payload |-> qi] >>
    [] OTHER         -> << >>

\* AppComponent.__onMemory: the actions it dispatches
App_onMemory(W) ==
  IF W.memory # UNDEF /\ W.memory.action = FROM_MEMORY
  THEN LET qi == [QInputs_new EXCEPT
                    !.q1 = IF W.memory.id = "Q_1" THEN W.memory.memory ELSE W._quat1,
                    !.q2 = IF W.memory.id = "Q_2" THEN W.memory.memory ELSE W._quat2]
       IN  App_update(W, qi)
  ELSE << >>

\* AppComponent.__opToString
App_opToString(op) ==
  CASE op = Q_ADD      -> "add"
    [] op = Q_SUBTRACT -> "sub"
    [] op = Q_MULTIPLY -> "mul"
    [] op = Q_DIVIDE   -> "div"
    [] OTHER           -> "none"

\* QuaternionComponent.__onInputs of the component with the given id
QComp_onInputs(d, id, input) ==
  IF input.action = INIT \/ input.action = Q_CLEAR
  THEN LET q == IF id = "q1" THEN input.q1 ELSE input.q2
       IN  <<q.w, q.i, q.j, q.k>>
  ELSE d

\* QuaternionComponent.__onMemory of the component with the given id
QComp_onMemory_any_id(d, id, m) ==
  IF m # UNDEF /\ m.action = FROM_MEMORY /\ m.id \in {"Q_1", "Q_2"}
  THEN <<m.memory.w, m.memory.i, m.memory.j, m.memory.k>>
  ELSE d

QComp_onMemory(d, id, m) ==
  IF m # UNDEF /\ m.action = FROM_MEMORY
     /\ ((m.id = "Q_1" /\ id = "q1") \/ (m.id = "Q_2" /\ id = "q2"))
  THEN <<m.memory.w, m.memory.i, m.memory.j, m.memory.k>>
  ELSE d

Slices(W) == [inputs |-> W.inputs, memory |-> W.memory]

\* Store.dispatch: the combined reducer (inputs, then memory), then the
\* subscribers in the order they subscribed, then the actions they dispatched.
\* A reducer that throws ends the state stream: the slices keep their values.
RECURSIVE dispatch(_, _)

\* the subscribers, given the world W2 after AppComponent.__onInputs
Notified(W2, isNew) ==
  Only({ IF fu = << >> THEN W3 ELSE dispatch(W3, fu[1]) :
         fu \in { IF isNew THEN App_onMemory(W2) ELSE << >> },
         W3 \in { [W2 EXCEPT !.disp =
                    [id \in QIds |->
                       IF isNew
                       THEN QComp_onMemory(QComp_onInputs(W2.disp[id], id, W2.inputs),
                                           id, W2.memory)
                       ELSE QComp_onInputs(W2.disp[id], id, W2.inputs)]] } })

\* the outcome of the two reducers ri and rm on the world W
Reduced(W, action, ri, rm) ==
  IF ri.threw THEN
    [W EXCEPT !.failed = TRUE,
              !.dlog = Append(W.dlog, [action |-> action, after |-> Slices(W), threw |-> TRUE])]
  ELSE IF rm.threw THEN
    [W EXCEPT !.failed = TRUE, !.Q1 = ri.Q1, !.Q2 = ri.Q2,
              !.dlog = Append(W.dlog, [action |-> action, after |-> Slices(W), threw |-> TRUE])]
  ELSE
    Only({ Notified(W2, rm.isNew) :
           W2 \in { App_onInputs(
                      [W EXCEPT !.inputs = ri.state, !.memory = rm.state,
                                !.Q1 = ri.Q1, !.Q2 = ri.Q2,
                                !.dlog = Append(W.dlog,
                                           [action |-> action,
                                            after |-> [inputs |-> ri.state, memory |-> rm.state],
                                            threw |-> FALSE])]) } })

dispatch(W, action) ==
  IF W.failed THEN W
  ELSE Only({ Reduced(W, action, ri, rm) :
              ri \in { inputReducer(W.inputs, action, W.Q1, W.Q2) },
              rm \in { memoryReducer(W.memory, action) } })

NoPayload(type) == [type |-> type, payload |-> UNDEF]

\* the world as the variables hold it, with an empty dispatch log
Cur ==
  [inputs |-> inputs, memory |-> memory, Q1 |-> Q1, Q2 |-> Q2,
   _op |-> _op, _save |-> _save, _quat1 |-> _quat1, _quat2 |-> _quat2,
   disp |-> disp, failed |-> failed, dlog |-> << >>]

Commit(W, ev) ==
  /\ inputs' = W.inputs
  /\ memory' = W.memory
  /\ Q1' = W.Q1
  /\ Q2' = W.Q2
  /\ _op' = W._op
  /\ _save' = W._save
  /\ _quat1' = W._quat1
  /\ _quat2' = W._quat2
  /\ disp' = W.disp
  /\ failed' = W.failed
  /\ dlog' = W.dlog
  /\ lastEv' = ev
  /\ UNCHANGED <<calcVars, qVars, engVars, concVars, heapVars>>

Ev(name, id, q) == [name |-> name, id |-> id, q |-> q]

-----------------------------------------------------------------------------
(* AppComponent's event handlers.  Each action is one handler run to        *)
(* completion: the dispatch, the subscribers and the dispatches they cause. *)

MemIds == {"Q_1", "Q_2"}

Typed == << QInt(0,1,0,0), QInt(2,0,1,0), QInt(0,0,0,0), QInt(1,-1,0,-1), QInt(0,0,0,1) >>

TypedSet == { Typed[n] : n \in 1..NumTyped }

\* the documents the service may deliver for assets/model.json
ModelDocs ==
  [q1 : {<<Num(1), Num(-1), Num(0), Num(-1)>>},
   q2 : {<<Num(1), Num(2), Num(1), Num(0)>>},
   op : ArithTypes \cup {Q_NONE},
   memory : {<< >>, <<Num(0), Num(0), Num(1), Num(0)>>}]

\* an event handler that sets _op (where it does) and dispatches one action
Handle(W0, action, ev) ==
  /\ ~failed
  /\ \E W \in { dispatch(W0, action) } : Commit(W, ev)
  /\ UNCHANGED loaded

onAdd ==
  \E W0 \in { [Cur EXCEPT !._op = "add"] } :
    Handle(W0, NoPayload(Q_ADD), Ev("onAdd", "", UNDEF))

onSubtract ==
  \E W0 \in { [Cur EXCEPT !._op = "sub"] } :
    Handle(W0, NoPayload(Q_SUBTRACT), Ev("onSubtract", "", UNDEF))

onMultiply ==
  \E W0 \in { [Cur EXCEPT !._op = "mul"] } :
    Handle(W0, NoPayload(Q_MULTIPLY), Ev("onMultiply", "", UNDEF))

onDivide ==
  \E W0 \in { [Cur EXCEPT !._op = "div"] } :
    Handle(W0, NoPayload(Q_DIVIDE), Ev("onDivide", "", UNDEF))

\* the user sets the fields of quaternion component id to t; the component's
\* onChanged emits new Q(w, i, j, k, id) to onQuaternionChanged
onQuaternionChanged ==
  /\ ~failed
  /\ \E id \in QIds, t \in TypedSet :
       \E q \in { Q_new(t.w, t.i, t.j, t.k, id) },
          W0 \in { [Cur EXCEPT !.disp[id] = <<t.w, t.i, t.j, t.k>>] } :
         \E fu \in { App_update(W0,
                       [QInputs_new EXCEPT !.q1 = IF q.id = "q1" THEN q ELSE W0._quat1,
                                           !.q2 = IF q.id = "q2" THEN q ELSE W0._quat2]) } :
           \E W \in { IF fu = << >> THEN W0 ELSE dispatch(W0, fu[1]) } :
             Commit(W, Ev("onQuaternionChanged", id, q))
  /\ UNCHANGED loaded

onClear ==
  \E W0 \in { Cur } :
    Handle(W0, NoPayload(Q_CLEAR), Ev("onClear", "", UNDEF))

onSave ==
  \E W0 \in { [Cur EXCEPT !._save = TRUE] } :
    Handle(W0, NoPayload(STORE), Ev("onSave", "", UNDEF))

onToMemory ==
  \E id \in MemIds :
    \E W0 \in { Cur }, q \in { IF id = "Q_1" THEN _quat1 ELSE _quat2 } :
      Handle(W0, [type |-> TO_MEMORY,
                  payload |-> [action |-> TO_MEMORY, id |-> id, memory |-> q]],
             Ev("onToMemory", id, q))

onFromMemory ==
  \E id \in MemIds :
    \E W0 \in { Cur } :
      Handle(W0, NoPayload(FROM_MEMORY), Ev("onFromMemory", id, UNDEF))

\* AppComponent.__onModelLoaded, once, when the service delivers the document
onModelLoaded ==
  /\ ~failed
  /\ ~loaded
  /\ \E data \in ModelDocs :
       \E q1Arr \in {data.q1}, q2Arr \in {data.q2}, mem \in {data.memory} :
         \E qi \in { [QInputs_new EXCEPT
                        !.q1 = Q_new(Elem(q1Arr,0), Elem(q1Arr,1), Elem(q1Arr,2), Elem(q1Arr,3), "undefined"),
                        !.q2 = Q_new(Elem(q2Arr,0), Elem(q2Arr,1), Elem(q2Arr,3), Elem(q2Arr,4), "undefined"),
                        !.op = data.op] } :
           \E W0 \in { [Cur EXCEPT !._op = App_opToString(qi.op)] } :
             \E W1 \in { dispatch(W0, [type |-> INIT, payload |-> qi]) } :
               \E W2 \in { IF Len(mem) > 0
                           THEN dispatch(W1, [type |-> TO_MEMORY,
                                              payload |-> Q_new(Elem(mem,0), Elem(mem,1), Elem(mem,2),
                                                                Elem(mem,3), "undefined")])
                           ELSE W1 } :
                 Commit(W2, Ev("onModelLoaded", data.op, UNDEF))
  /\ loaded' = TRUE

-----------------------------------------------------------------------------
(* Initial values *)

\* the store after StoreModule.forRoot: every reducer has reduced STORE_INIT
\* from an undefined slice; the components have subscribed
AppInit ==
  /\ inputs = inputReducer(UNDEF, NoPayload(STORE_INIT), NewEngine, NewEngine).state
  /\ memory = memoryReducer(UNDEF, NoPayload(STORE_INIT)).state
  /\ _op = "none"
  /\ _save = FALSE
  /\ _quat1 = Q_clone(inputs.q1)
  /\ _quat2 = Q_clone(inputs.q2)
  /\ disp = [id \in QIds |-> <<Zero, Zero, Zero, Zero>>]
  /\ failed = FALSE
  /\ loaded = FALSE
  /\ lastEv = Ev("none", "", UNDEF)
  /\ dlog = << >>

EnginesInit ==
  /\ Q1 = NewEngine
  /\ Q2 = NewEngine

CalcIdle ==
  /\ a = QInt(1,0,0,0)
  /\ b = QInt(1,0,0,0)
  /\ calls = << >>

QIdle ==
  /\ qobj = QInt(0,0,0,0)
  /\ qprev = QInt(0,0,0,0)
  /\ qcall = [m |-> "none", args |-> << >>]

\* no call made: the record of the latest engine call before any call
NoCall == [n |-> 0, op |-> "none", self |-> << >>, arg |-> << >>, t |-> Zero, ret |-> << >>]

EngIdle ==
  /\ eng = NewEngine
  /\ earg = NewEngine
  /\ ecall = NoCall

\* the callers of QCalc, and a caller that has not called
Callers == {"A", "B"}
NotCalling == [pc |-> "idle", op |-> "none", q1 |-> UNDEF, q2 |-> UNDEF, ret |-> UNDEF]

ConcIdle ==
  /\ conc = [c \in Callers |-> NotCalling]
  /\ exclusive = TRUE

\* no object allocated
NoOp == [op |-> "none", ref |-> 0, field |-> "", n |-> 0]

HeapIdle ==
  /\ heap = << >>
  /\ hclones = << >>
  /\ hlast = NoOp

-----------------------------------------------------------------------------
(* Spec: the application *)

Init == AppInit /\ EnginesInit /\ CalcIdle /\ QIdle /\ EngIdle /\ ConcIdle /\ HeapIdle

Next ==
  \/ onModelLoaded
  \/ onAdd
  \/ onSubtract
  \/ onMultiply
  \/ onDivide
  \/ onQuaternionChanged
  \/ onClear
  \/ onSave
  \/ onToMemory
  \/ onFromMemory

Spec == Init /\ [][Next]_vars

-----------------------------------------------------------------------------
(* SpecCalc: QCalc calls on sample operands *)

CalcInit ==
  /\ a \in OperandSet
  /\ b \in OperandSet
  /\ calls = << >>
  /\ EnginesInit
  /\ AppInit
  /\ QIdle
  /\ EngIdle
  /\ ConcIdle
  /\ HeapIdle

SpecCalc == CalcInit /\ [][CalcNext]_vars

-----------------------------------------------------------------------------
(* SpecQ: one Q object, constructed from arbitrary numbers and then         *)
(* assigned through its setters.                                            *)

QVals == { Num(n) : n \in -MaxVal..MaxVal } \cup {NaN, PosInf, NegInf}

\* the fields of a Q before its constructor body runs
Q_fresh == [w |-> Zero, i |-> Zero, j |-> Zero, k |-> Zero, id |-> ""]

QInit ==
  /\ \E wValue \in QVals, iValue \in QVals, jValue \in QVals, kValue \in QVals :
       /\ qobj = Q_new(wValue, iValue, jValue, kValue, "undefined")
       /\ qcall = [m |-> "new", args |-> <<wValue, iValue, jValue, kValue>>]
  /\ qprev = Q_fresh
  /\ EnginesInit
  /\ AppInit
  /\ CalcIdle
  /\ EngIdle
  /\ ConcIdle
  /\ HeapIdle

Assign(f) ==
  /\ \E value \in QVals :
       /\ qobj' = Q_set(qobj, f, value)
       /\ qcall' = [m |-> f, args |-> <<value>>]
  /\ qprev' = qobj
  /\ UNCHANGED <<Q1, Q2, calcVars, appVars, engVars, concVars, heapVars>>

set_w == Assign("w")
set_i == Assign("i")
set_j == Assign("j")
set_k == Assign("k")

QNext == set_w \/ set_i \/ set_j \/ set_k

SpecQ == QInit /\ [][QNext]_vars

-----------------------------------------------------------------------------
(* SpecEngine: one TSMT$Quaternion engine, loaded with a sample quaternion  *)
(* and then called.  An operation is called on the inputs on which every    *)
(* Math.sqrt, Math.sin, Math.cos and Math.acos it takes is exact.           *)

Eng(w, x, y, z) == <<Num(w), Num(x), Num(y), Num(z)>>

EngineSamples ==
  << Eng(1,0,0,0),  Eng(0,0,0,0), Eng(0,1,0,0),  Eng(0,0,2,0), Eng(-1,0,0,0), Eng(1,1,1,1),
     Eng(0,0,0,-3), Eng(0,3,0,4), Eng(0,0,-1,0), Eng(2,0,0,0), Eng(0,-2,0,0) >>

EngineSet == { EngineSamples[n] : n \in 1..NumEngines }

\* rotation axes: the zero vector, two nonzero vectors, an array of two numbers
Axes == { <<Zero, Zero, Zero>>, <<One, Zero, Zero>>, <<Zero, Num(3), Num(4)>>, <<Zero, Zero>> }

\* rotation angles, in units of pi
Angles == { Zero, One, Num(2) }

\* interpolation parameters, inside and outside [0, 1]
Params == { Zero, Half, One, Num(2), Num(-1) }

\* the 24 rotation matrices whose entries are 0, 1 and -1: the signed
\* permutation matrices of determinant 1
Perms3 == { p \in [1..3 -> 1..3] : {p[1], p[2], p[3]} = 1..3 }
Signs3 == [1..3 -> {-1, 1}]
SignedPerm(p, sg) == [r \in 1..3 |-> [c \in 1..3 |-> IF c = p[r] THEN Num(sg[r]) ELSE Zero]]
Det3(m) ==
  LET e(r, c) == m[r][c][1]
  IN  e(1,1) * (e(2,2)*e(3,3) - e(2,3)*e(3,2))
      - e(1,2) * (e(2,1)*e(3,3) - e(2,3)*e(3,1))
      + e(1,3) * (e(2,1)*e(3,2) - e(2,2)*e(3,1))
RotationMatrices ==
  { SignedPerm(x[1], x[2]) : x \in { y \in Perms3 \X Signs3 : Det3(SignedPerm(y[1], y[2])) = 1 } }

\* the arguments given to fromRotationMatrix: the rotations and an array of two rows
Matrices == RotationMatrices \cup { << <<One, Zero, Zero>>, <<Zero, One, Zero>> >> }

Called(op, arg, t, ret) ==
  [n |-> ecall.n + 1, op |-> op, self |-> eng, arg |-> arg, t |-> t, ret |-> ret]

call_normalize ==
  /\ ecall.n < MaxEngCalls
  /\ SqrtExact(SumSq(eng))
  /\ eng' = normalize(eng)
  /\ ecall' = Called("normalize", << >>, Zero, << >>)
  /\ UNCHANGED <<earg, Q1, Q2, calcVars, qVars, appVars, concVars, heapVars>>

call_invert ==
  /\ ecall.n < MaxEngCalls
  /\ eng' = invert(eng)
  /\ ecall' = Called("invert", << >>, Zero, << >>)
  /\ UNCHANGED <<earg, Q1, Q2, calcVars, qVars, appVars, concVars, heapVars>>

call_divide ==
  /\ ecall.n < MaxEngCalls
  /\ \E q \in EngineSet :
       /\ eng' = divide(eng, q)
       /\ earg' = q
       /\ ecall' = Called("divide", q, Zero, << >>)
  /\ UNCHANGED <<Q1, Q2, calcVars, qVars, appVars, concVars, heapVars>>

call_fromAxisRotation ==
  /\ ecall.n < MaxEngCalls
  /\ \E axis \in Axes, angle \in Angles :
       /\ Len(axis) = 3 => SqrtExact(AxisSumSq(axis))
       /\ SinExact(NumMul(Half, angle))
       /\ CosExact(NumMul(Half, angle))
       /\ eng' = fromAxisRotation(eng, axis, angle)
       /\ ecall' = Called("fromAxisRotation", axis, angle, << >>)
  /\ UNCHANGED <<earg, Q1, Q2, calcVars, qVars, appVars, concVars, heapVars>>

call_fromRotationMatrix ==
  /\ ecall.n < MaxEngCalls
  /\ \E m \in Matrices :
       /\ Len(m) = 3 => SqrtExact(RotationRadicand(m))
       /\ eng' = fromRotationMatrix(eng, m)
       /\ ecall' = Called("fromRotationMatrix", m, Zero, << >>)
  /\ UNCHANGED <<earg, Q1, Q2, calcVars, qVars, appVars, concVars, heapVars>>

call_toRotationMatrix ==
  /\ ecall.n < MaxEngCalls
  /\ ecall' = Called("toRotationMatrix", << >>, Zero, toRotationMatrix(eng))
  /\ UNCHANGED <<eng, earg, Q1, Q2, calcVars, qVars, appVars, concVars, heapVars>>

\* slerp(q, t) with q another engine or the engine itself
call_slerp ==
  /\ ecall.n < MaxEngCalls
  /\ \E q \in EngineSet \cup {eng}, t \in Params :
       /\ SlerpExact(eng, q, t)
       /\ earg' = q
       /\ ecall' = Called("slerp", q, t, slerp(eng, q, t))
  /\ UNCHANGED <<eng, Q1, Q2, calcVars, qVars, appVars, concVars, heapVars>>

\* nlerp(q, t) with q another engine
call_nlerp ==
  /\ ecall.n < MaxEngCalls
  /\ \E q \in EngineSet, t \in Params :
       /\ SqrtExact(SumSq(nlerp_blend(eng, q, t).qt))
       /\ \E r \in { nlerp(eng, q, t) } :
            /\ earg' = r.q
            /\ ecall' = Called("nlerp", q, t, r.ret)
  /\ UNCHANGED <<eng, Q1, Q2, calcVars, qVars, appVars, concVars, heapVars>>

\* the operations that return a new engine.  Each works on this.clone() and
\* reads q through the values getter, a copy of q's array: no statement of
\* theirs assigns to this._q or to q's array
call_addTo ==
  /\ ecall.n < MaxEngCalls
  /\ \E q \in EngineSet :
       /\ earg' = q
       /\ ecall' = Called("addTo", q, Zero, addTo(eng, q))
  /\ UNCHANGED <<eng, Q1, Q2, calcVars, qVars, appVars, concVars, heapVars>>

call_subtractFrom ==
  /\ ecall.n < MaxEngCalls
  /\ \E q \in EngineSet :
       /\ earg' = q
       /\ ecall' = Called("subtractFrom", q, Zero, subtractFrom(eng, q))
  /\ UNCHANGED <<eng, Q1, Q2, calcVars, qVars, appVars, concVars, heapVars>>

call_multiplyInto ==
  /\ ecall.n < MaxEngCalls
  /\ \E q \in EngineSet :
       /\ earg' = q
       /\ ecall' = Called("multiplyInto", q, Zero, multiplyInto(eng, q))
  /\ UNCHANGED <<eng, Q1, Q2, calcVars, qVars, appVars, concVars, heapVars>>

call_divideInto ==
  /\ ecall.n < MaxEngCalls
  /\ \E q \in EngineSet :
       /\ earg' = q
       /\ ecall' = Called("divideInto", q, Zero, divideInto(eng, q))
  /\ UNCHANGED <<eng, Q1, Q2, calcVars, qVars, appVars, concVars, heapVars>>

call_inverse ==
  /\ ecall.n < MaxEngCalls
  /\ ecall' = Called("inverse", << >>, Zero, inverse(eng))
  /\ UNCHANGED <<eng, earg, Q1, Q2, calcVars, qVars, appVars, concVars, heapVars>>

EngInit ==
  /\ eng \in EngineSet
  /\ earg = NewEngine
  /\ ecall = NoCall
  /\ EnginesInit
  /\ AppInit
  /\ CalcIdle
  /\ QIdle
  /\ ConcIdle
  /\ HeapIdle

EngNext ==
  \/ call_normalize
  \/ call_invert
  \/ call_divide
  \/ call_fromAxisRotation
  \/ call_fromRotationMatrix
  \/ call_toRotationMatrix
  \/ call_slerp
  \/ call_nlerp
  \/ call_addTo
  \/ call_subtractFrom
  \/ call_multiplyInto
  \/ call_divideInto
  \/ call_inverse

SpecEngine == EngInit /\ [][EngNext]_vars

-----------------------------------------------------------------------------
(* SpecConc: two callers of QCalc whose calls are taken one statement at a  *)
(* time.  In a JavaScript run each static method runs to completion before  *)
(* any other code (exclusive = TRUE); exclusive = FALSE lets the statements *)
(* of two calls interleave, as callers on shared memory would.              *)

\* the operands the callers pass
ConcOperands == { QInt(0,1,0,0), QInt(1,2,1,0) }

\* the engine method a QCalc method applies to Q1 with argument Q2
EngineApply(op, s, t) ==
  CASE op = "add"      -> add(s, t)
    [] op = "subtract" -> subtract(s, t)
    [] op = "multiply" -> multiply(s, t)
    [] op = "divide"   -> divide(s, t)

\* caller c may take its next statement
MayStep_always(c) == TRUE

MayStep(c) ==
  exclusive => \A d \in Callers \ {c} : conc[d].pc \in {"idle", "done"}

\* caller c enters QCalc.<op>(q1, q2)
conc_call ==
  \E c \in Callers, op \in CalcOps, q1 \in ConcOperands, q2 \in ConcOperands :
    /\ conc[c].pc = "idle"
    /\ MayStep(c)
    /\ conc' = [conc EXCEPT ![c] = [pc |-> "loadQ1", op |-> op, q1 |-> q1, q2 |-> q2, ret |-> UNDEF]]
    /\ UNCHANGED <<exclusive, Q1, Q2, calcVars, qVars, appVars, engVars, heapVars>>

\* QCalc.Q1.fromArray(q1.w, q1.i, q1.j, q1.k)
conc_loadQ1 ==
  \E c \in Callers :
    /\ conc[c].pc = "loadQ1"
    /\ MayStep(c)
    /\ Q1' = fromArray(Q1, <<conc[c].q1.w, conc[c].q1.i, conc[c].q1.j, conc[c].q1.k>>)
    /\ conc' = [conc EXCEPT ![c].pc = "loadQ2"]
    /\ UNCHANGED <<exclusive, Q2, calcVars, qVars, appVars, engVars, heapVars>>

\* QCalc.Q2.fromArray(q2.w, q2.i, q2.j, q2.k)
conc_loadQ2 ==
  \E c \in Callers :
    /\ conc[c].pc = "loadQ2"
    /\ MayStep(c)
    /\ Q2' = fromArray(Q2, <<conc[c].q2.w, conc[c].q2.i, conc[c].q2.j, conc[c].q2.k>>)
    /\ conc' = [conc EXCEPT ![c].pc = "apply"]
    /\ UNCHANGED <<exclusive, Q1, calcVars, qVars, appVars, engVars, heapVars>>

\* QCalc.Q1.<op>(QCalc.Q2)
conc_apply ==
  \E c \in Callers :
    /\ conc[c].pc = "apply"
    /\ MayStep(c)
    /\ Q1' = EngineApply(conc[c].op, Q1, Q2)
    /\ conc' = [conc EXCEPT ![c].pc = "return"]
    /\ UNCHANGED <<exclusive, Q2, calcVars, qVars, appVars, engVars, heapVars>>

\* const values = QCalc.Q1.toArray(); return new Q(values[0], ..., values[3])
conc_return ==
  \E c \in Callers :
    /\ conc[c].pc = "return"
    /\ MayStep(c)
    /\ \E values \in { toArray(Q1) } :
         conc' = [conc EXCEPT ![c].pc = "done",
                              ![c].ret = Q_new(values[1], values[2], values[3], values[4], "undefined")]
    /\ UNCHANGED <<exclusive, Q1, Q2, calcVars, qVars, appVars, engVars, heapVars>>

ConcInit ==
  /\ conc = [c \in Callers |-> NotCalling]
  /\ exclusive \in BOOLEAN
  /\ EnginesInit
  /\ AppInit
  /\ CalcIdle
  /\ QIdle
  /\ EngIdle
  /\ HeapIdle

ConcNext == conc_call \/ conc_loadQ1 \/ conc_loadQ2 \/ conc_apply \/ conc_return

SpecConc == ConcInit /\ [][ConcNext]_vars

-----------------------------------------------------------------------------
(* SpecClone: Q and QInputs as objects.  The heap is the sequence of the    *)
(* objects allocated; a reference is an index into it.  A Q object holds    *)
(* its components and id, a QInputs object holds references to three Q      *)
(* objects and its two strings.                                             *)

IsQ(obj) == "w" \in DOMAIN obj

\* Q.clone() of the object at r: the heap after the call and the reference returned
Q_clone_ref_returns_this(h, r) == [heap |-> h, ref |-> r]

Q_clone_ref(h, r) == [heap |-> Append(h, Q_clone(h[r])), ref |-> Len(h) + 1]

\* QInputs.clone() of the object at r; the three Q objects the constructor of
\* the new QInputs allocates are replaced at once and are left out of the heap
QInputs_clone_ref(h, r) ==
  LET c1 == Q_clone_ref(h, h[r].q1)
      c2 == Q_clone_ref(c1.heap, h[r].q2)
      c3 == Q_clone_ref(c2.heap, h[r].result)
  IN  [heap |-> Append(c3.heap, [q1 |-> c1.ref, q2 |-> c2.ref, result |-> c3.ref,
                                 op |-> h[r].op, action |-> h[r].action]),
       ref  |-> Len(c3.heap) + 1]

QRefs      == { r \in DOMAIN heap : IsQ(heap[r]) }
QInputsRefs == { r \in DOMAIN heap : ~IsQ(heap[r]) }

\* the numbers and strings later assignments store
AssignVals == { Num(7) }
AssignIds  == { "x" }

Did(op, r, f) == [op |-> op, ref |-> r, field |-> f, n |-> hlast.n + 1]

\* c = q.clone() for a Q object q; one clone is taken in a run
do_Q_clone ==
  /\ hclones = << >>
  /\ \E r \in QRefs :
       \E c \in { Q_clone_ref(heap, r) } :
         /\ heap' = c.heap
         /\ hclones' = Append(hclones, [orig |-> r, copy |-> c.ref])
         /\ hlast' = Did("clone", r, "")
  /\ UNCHANGED <<Q1, Q2, calcVars, qVars, appVars, engVars, concVars>>

\* c = qi.clone() for a QInputs object qi
do_QInputs_clone ==
  /\ hclones = << >>
  /\ \E r \in QInputsRefs :
       \E c \in { QInputs_clone_ref(heap, r) } :
         /\ heap' = c.heap
         /\ hclones' = Append(hclones, [orig |-> r, copy |-> c.ref])
         /\ hlast' = Did("clone", r, "")
  /\ UNCHANGED <<Q1, Q2, calcVars, qVars, appVars, engVars, concVars>>

\* q.w = value, q.i = value, q.j = value or q.k = value
assign_component ==
  /\ hlast.n < MaxOps
  /\ \E r \in QRefs, f \in Q_fields, value \in AssignVals :
       /\ heap' = [heap EXCEPT ![r] = Q_set(heap[r], f, value)]
       /\ hlast' = Did("assign", r, f)
  /\ UNCHANGED <<hclones, Q1, Q2, calcVars, qVars, appVars, engVars, concVars>>

\* q.id = value
assign_id ==
  /\ hlast.n < MaxOps
  /\ \E r \in QRefs, value \in AssignIds :
       /\ heap' = [heap EXCEPT ![r].id = value]
       /\ hlast' = Did("assign", r, "id")
  /\ UNCHANGED <<hclones, Q1, Q2, calcVars, qVars, appVars, engVars, concVars>>

\* qi.op = value
assign_op ==
  /\ hlast.n < MaxOps
  /\ \E r \in QInputsRefs :
       /\ heap' = [heap EXCEPT ![r].op = Q_NONE]
       /\ hlast' = Did("assign", r, "op")
  /\ UNCHANGED <<hclones, Q1, Q2, calcVars, qVars, appVars, engVars, concVars>>

\* a QInputs object and the three Q objects it holds
CloneInit ==
  /\ heap = << Q_new(Num(1), Num(-1), Num(0), Num(-1), "q1"),
               Q_new(Num(1), Num(2), Num(1), Num(0), "q2"),
               QInt(2, 1, 1, -1),
               [q1 |-> 1, q2 |-> 2, result |-> 3, op |-> Q_ADD, action |-> Q_ADD] >>
  /\ hclones = << >>
  /\ hlast = NoOp
  /\ EnginesInit
  /\ AppInit
  /\ CalcIdle
  /\ QIdle
  /\ EngIdle
  /\ ConcIdle

CloneNext == do_Q_clone \/ do_QInputs_clone \/ assign_component \/ assign_id \/ assign_op

SpecClone == CloneInit /\ [][CloneNext]_vars

-----------------------------------------------------------------------------
(* SpecReducers: the two reducers on objects.  The heap holds Q, QInputs    *)
(* and QMemory objects; a QMemory object holds its two strings and a        *)
(* reference to a Q.  The reference 0 is undefined.  A reducer is called    *)
(* with a prior state (undefined, or an object of the heap) and an action   *)
(* the application dispatches; it yields the heap it leaves, the reference  *)
(* it returns and, for inputReducer, the static engines.                    *)

NoRef == 0

IsQInputs(obj) == "q1" \in DOMAIN obj
IsQMemory(obj) == "memory" \in DOMAIN obj

\* new: the object is appended to the heap
Alloc(h, obj) == [heap |-> Append(h, obj), ref |-> Len(h) + 1]

\* obj.f for a property holding an object: undefined when obj has no such property
PropRef(obj, f) == IF f \in DOMAIN obj THEN obj[f] ELSE NoRef

\* qi.result = QCalc.<m>(qi.q1, qi.q2) for the QInputs at r, and return qi
Arith_ref(h, r, m, s1, s2) ==
  IF h[r].q1 = NoRef \/ h[r].q2 = NoRef
  THEN [threw |-> TRUE, heap |-> h, ref |-> NoRef, Q1 |-> s1, Q2 |-> s2]
  ELSE Only({ [threw |-> FALSE,
               heap |-> [Append(h, x.result) EXCEPT ![r].result = Len(h) + 1],
               ref |-> r, Q1 |-> x.Q1, Q2 |-> x.Q2] :
              x \in { QCalc_apply(m, h[h[r].q1], h[h[r].q2], s1, s2) } })

\* inputReducer(state, {type, payload}).  The q1 and q2 that new QInputs()
\* allocates are replaced at once and are left out of the heap.
inputReducer_ref_returns_state(h, state, type, payload, s1, s2) ==
  LET hasP  == payload # NoRef
      Throw == [threw |-> TRUE, heap |-> h, ref |-> NoRef, Q1 |-> s1, Q2 |-> s2]
      c1 == IF hasP THEN [heap |-> h, ref |-> PropRef(h[payload], "q1")]
            ELSE IF state # NoRef THEN Q_clone_ref(h, h[state].q1)
            ELSE Alloc(h, QInt(1,0,0,0))
      c2 == IF hasP THEN [heap |-> c1.heap, ref |-> PropRef(h[payload], "q2")]
            ELSE IF state # NoRef THEN Q_clone_ref(c1.heap, h[state].q2)
            ELSE Alloc(c1.heap, QInt(1,0,0,0))
      op == IF hasP THEN PropStr(h[payload], "op")
            ELSE IF state # NoRef THEN h[state].op ELSE Q_NONE
      c3 == Alloc(c2.heap, QInt(0,0,0,0))
      qi == Alloc(c3.heap, [q1 |-> c1.ref, q2 |-> c2.ref, result |-> c3.ref,
                            op |-> op, action |-> type])
      Return(hh, r) == [threw |-> FALSE, heap |-> hh, ref |-> r, Q1 |-> s1, Q2 |-> s2]
  IN
  IF ~hasP /\ state # NoRef /\ (h[state].q1 = NoRef \/ h[state].q2 = NoRef) THEN Throw
  ELSE IF type \in ArithTypes THEN Arith_ref(qi.heap, qi.ref, MethodOf(type), s1, s2)
  ELSE IF type = Q_CLEAR THEN
    LET n1 == Alloc(qi.heap, QInt(1,0,0,0))
        n2 == Alloc(n1.heap, QInt(1,0,0,0))
        n3 == Alloc(n2.heap, QInt(1,0,0,0))
    IN  Return([n3.heap EXCEPT ![qi.ref].op = Q_NONE, ![qi.ref].q1 = n1.ref,
                               ![qi.ref].q2 = n2.ref, ![qi.ref].result = n3.ref], qi.ref)
  ELSE IF type = INIT THEN
    IF ~hasP THEN Throw
    ELSE LET q  == QInputs_clone_ref(qi.heap, payload)
             hq == [q.heap EXCEPT ![q.ref].action = type]
         IN  IF hq[q.ref].op \in ArithTypes
             THEN Arith_ref(hq, q.ref, MethodOf(hq[q.ref].op), s1, s2)
             ELSE Return(hq, q.ref)
  ELSE IF state # NoRef THEN Return(h, state) ELSE Return(qi.heap, qi.ref)

inputReducer_ref(h, state, type, payload, s1, s2) ==
  LET hasP  == payload # NoRef
      Throw == [threw |-> TRUE, heap |-> h, ref |-> NoRef, Q1 |-> s1, Q2 |-> s2]
      c1 == IF hasP THEN [heap |-> h, ref |-> PropRef(h[payload], "q1")]
            ELSE IF state # NoRef THEN Q_clone_ref(h, h[state].q1)
            ELSE Alloc(h, QInt(1,0,0,0))
      c2 == IF hasP THEN [heap |-> c1.heap, ref |-> PropRef(h[payload], "q2")]
            ELSE IF state # NoRef THEN Q_clone_ref(c1.heap, h[state].q2)
            ELSE Alloc(c1.heap, QInt(1,0,0,0))
      op == IF hasP THEN PropStr(h[payload], "op")
            ELSE IF state # NoRef THEN h[state].op ELSE Q_NONE
      c3 == Alloc(c2.heap, QInt(0,0,0,0))
      qi == Alloc(c3.heap, [q1 |-> c1.ref, q2 |-> c2.ref, result |-> c3.ref,
                            op |-> op, action |-> type])
      Return(hh, r) == [threw |-> FALSE, heap |-> hh, ref |-> r, Q1 |-> s1, Q2 |-> s2]
  IN
  IF ~hasP /\ state # NoRef /\ (h[state].q1 = NoRef \/ h[state].q2 = NoRef) THEN Throw
  ELSE IF type \in ArithTypes THEN Arith_ref(qi.heap, qi.ref, MethodOf(type), s1, s2)
  ELSE IF type = Q_CLEAR THEN
    LET n1 == Alloc(qi.heap, QInt(1,0,0,0))
        n2 == Alloc(n1.heap, QInt(1,0,0,0))
        n3 == Alloc(n2.heap, QInt(1,0,0,0))
    IN  Return([n3.heap EXCEPT ![qi.ref].op = Q_NONE, ![qi.ref].q1 = n1.ref,
                               ![qi.ref].q2 = n2.ref, ![qi.ref].result = n3.ref], qi.ref)
  ELSE IF type = INIT THEN
    IF ~hasP THEN Throw
    ELSE LET q  == QInputs_clone_ref(qi.heap, payload)
             hq == [q.heap EXCEPT ![q.ref].action = type]
         IN  IF hq[q.ref].op \in ArithTypes
             THEN Arith_ref(hq, q.ref, MethodOf(hq[q.ref].op), s1, s2)
             ELSE Return(hq, q.ref)
  ELSE Return(qi.heap, qi.ref)

\* memoryReducer(state, {type, payload})
memoryReducer_ref(h, state, type, payload) ==
  IF type = TO_MEMORY THEN
    IF payload = NoRef THEN [threw |-> TRUE, heap |-> h, ref |-> NoRef]
    ELSE Only({ [threw |-> FALSE, heap |-> n.heap, ref |-> n.ref] :
                n \in { Alloc(h, [action |-> type, id |-> PropStr(h[payload], "id"),
                                  memory |-> PropRef(h[payload], "memory")]) } })
  ELSE IF type = FROM_MEMORY THEN
    IF state = NoRef THEN [threw |-> TRUE, heap |-> h, ref |-> NoRef]
    ELSE Only({ [threw |-> FALSE, heap |-> n.heap, ref |-> n.ref] :
                n \in { Alloc(h, [action |-> FROM_MEMORY, id |-> h[state].id,
                                  memory |-> h[state].memory]) } })
  ELSE [threw |-> FALSE, heap |-> h, ref |-> state]

\* the payloads the application dispatches with an action of the given type:
\* a QInputs with its three quaternions (arithmetic actions from __update,
\* INIT), a QMemory or a bare Q (TO_MEMORY), or none
Payloads(type) ==
  LET full == { r \in DOMAIN heap : /\ IsQInputs(heap[r])
                                    /\ heap[r].q1 # NoRef
                                    /\ heap[r].q2 # NoRef }
  IN  CASE type \in ArithTypes -> {NoRef} \cup full
        [] type = INIT         -> full
        [] type = TO_MEMORY    -> { r \in DOMAIN heap : IsQMemory(heap[r]) \/ IsQ(heap[r]) }
        [] OTHER               -> {NoRef}

ActionTypes == ArithTypes \cup {Q_CLEAR, TO_MEMORY, FROM_MEMORY, INIT, STORE, STORE_INIT}

ReducedBy(name, state, type, payload, r) ==
  [op |-> name, ref |-> r.ref, field |-> type, n |-> hlast.n + 1,
   state |-> state, payload |-> payload, threw |-> r.threw]

do_inputReducer ==
  /\ hlast.n < MaxReductions
  /\ \E state \in {NoRef} \cup { x \in DOMAIN heap : IsQInputs(heap[x]) },
        type \in ActionTypes :
       \E payload \in Payloads(type) :
         \E r \in { inputReducer_ref(heap, state, type, payload, Q1, Q2) } :
           /\ heap' = r.heap
           /\ Q1' = r.Q1
           /\ Q2' = r.Q2
           /\ hlast' = ReducedBy("inputReducer", state, type, payload, r)
  /\ UNCHANGED <<hclones, calcVars, qVars, appVars, engVars, concVars>>

do_memoryReducer ==
  /\ hlast.n < MaxReductions
  /\ \E state \in {NoRef} \cup { x \in DOMAIN heap : IsQMemory(heap[x]) },
        type \in ActionTypes :
       \E payload \in Payloads(type) :
         \E r \in { memoryReducer_ref(heap, state, type, payload) } :
           /\ heap' = r.heap
           /\ hlast' = ReducedBy("memoryReducer", state, type, payload, r)
  /\ UNCHANGED <<hclones, Q1, Q2, calcVars, qVars, appVars, engVars, concVars>>

\* an inputs state with its quaternions, a QInputs built for a payload, a
\* QMemory with its quaternion, and the inputs state that a TO_MEMORY leaves,
\* with undefined operands
ReducersInit ==
  /\ heap = << Q_new(Num(1), Num(-1), Num(0), Num(-1), "q1"),
               Q_new(Num(1), Num(2), Num(1), Num(0), "q2"),
               QInt(2, 1, 1, -1),
               [q1 |-> 1, q2 |-> 2, result |-> 3, op |-> Q_NONE, action |-> Q_ADD],
               Q_new(Num(0), Num(1), Num(0), Num(0), "q1"),
               Q_new(Num(2), Num(0), Num(1), Num(0), "q2"),
               QInt(0, 0, 0, 0),
               [q1 |-> 5, q2 |-> 6, result |-> 7, op |-> Q_MULTIPLY, action |-> "none"],
               Q_new(Num(0), Num(0), Num(1), Num(0), "q2"),
               [action |-> TO_MEMORY, id |-> "Q_2", memory |-> 9],
               QInt(0, 0, 0, 0),
               [q1 |-> NoRef, q2 |-> NoRef, result |-> 11, op |-> "undefined",
                action |-> TO_MEMORY] >>
  /\ hclones = << >>
  /\ hlast = NoOp
  /\ EnginesInit
  /\ AppInit
  /\ CalcIdle
  /\ QIdle
  /\ EngIdle
  /\ ConcIdle

ReducersNext == do_inputReducer \/ do_memoryReducer

SpecReducers == ReducersInit /\ [][ReducersNext]_vars

-----------------------------------------------------------------------------
(* Properties of the dispatcher and the engine (SpecCalc) *)

Identity == QInt(1,0,0,0)
ZeroQ    == QInt(0,0,0,0)

EngineOf(q) == <<q.w, q.i, q.j, q.k>>

NormSq(q) ==
  NumAdd(NumAdd(NumAdd(NumMul(q.w,q.w), NumMul(q.i,q.i)), NumMul(q.j,q.j)), NumMul(q.k,q.k))

\* an integer unit quaternion: squared norm exactly 1
IsUnit(q) == NormSq(q) = One

CallIdx == DOMAIN calls

\* C1: for a quaternion q of squared norm 1, QCalc.divide(q, q) is (1,0,0,0),
\* and so are the engine's q.multiplyInto(q.inverse()) and q.divideInto(q).
C1_SelfDivideIsIdentity ==
  \A n \in CallIdx :
    (calls[n].op = "divide" /\ calls[n].q1 = calls[n].q2 /\ IsUnit(calls[n].q1))
      => /\ calls[n].result = Identity
         /\ multiplyInto(EngineOf(calls[n].q1), inverse(EngineOf(calls[n].q1))) = NewEngine
         /\ divideInto(EngineOf(calls[n].q1), EngineOf(calls[n].q1)) = NewEngine

\* the Hamilton product a*b of two Q values, as four numbers
Hamilton(x, y) ==
  << NumSub(NumSub(NumSub(NumMul(x.w,y.w), NumMul(x.i,y.i)), NumMul(x.j,y.j)), NumMul(x.k,y.k)),
     NumSub(NumAdd(NumAdd(NumMul(x.w,y.i), NumMul(x.i,y.w)), NumMul(x.j,y.k)), NumMul(x.k,y.j)),
     NumAdd(NumAdd(NumSub(NumMul(x.w,y.j), NumMul(x.i,y.k)), NumMul(x.j,y.w)), NumMul(x.k,y.i)),
     NumAdd(NumSub(NumAdd(NumMul(x.w,y.k), NumMul(x.i,y.j)), NumMul(x.j,y.i)), NumMul(x.k,y.w)) >>

\* C2: every QCalc.multiply(q1, q2) returns the Hamilton product q1*q2 with the
\* operands in the order given; (1,0,0,0) is an identity on either side.
C2_MultiplyIsHamilton ==
  \A n \in CallIdx :
    calls[n].op = "multiply"
      => /\ EngineOf(calls[n].result) = Hamilton(calls[n].q1, calls[n].q2)
         /\ (calls[n].q1 = Identity => calls[n].result = calls[n].q2)
         /\ (calls[n].q2 = Identity => calls[n].result = calls[n].q1)

\* i*j = k has been computed (and j*i would be -k)
C2_Witness ==
  \E n \in CallIdx :
    /\ calls[n].op = "multiply"
    /\ calls[n].q1 = QInt(0,1,0,0)
    /\ calls[n].q2 = QInt(0,0,1,0)
    /\ calls[n].result = QInt(0,0,0,1)

\* C3: QCalc.add returns the componentwise sum and QCalc.subtract the
\* componentwise difference; adding q to subtract(zero, q) gives zero.
C3_AddSubtractComponentwise ==
  \A n \in CallIdx :
    LET c == calls[n] IN
    /\ c.op = "add" =>
         /\ c.result.w = NumAdd(c.q1.w, c.q2.w)
         /\ c.result.i = NumAdd(c.q1.i, c.q2.i)
         /\ c.result.j = NumAdd(c.q1.j, c.q2.j)
         /\ c.result.k = NumAdd(c.q1.k, c.q2.k)
    /\ c.op = "subtract" =>
         /\ c.result.w = NumSub(c.q1.w, c.q2.w)
         /\ c.result.i = NumSub(c.q1.i, c.q2.i)
         /\ c.result.j = NumSub(c.q1.j, c.q2.j)
         /\ c.result.k = NumSub(c.q1.k, c.q2.k)
    /\ (c.op = "subtract" /\ c.q1 = ZeroQ) =>
         QCalc_add(c.q2, c.result, Q1, Q2).result = ZeroQ

\* add((1,-1,0,-1), (1,2,1,0)) = (2,1,1,-1) has been computed
C3_Witness ==
  \E n \in CallIdx :
    /\ calls[n].op = "add"
    /\ calls[n].q1 = QInt(1,-1,0,-1)
    /\ calls[n].q2 = QInt(1,2,1,0)
    /\ calls[n].result = QInt(2,1,1,-1)

\* C4: dividing q1 by a unit quaternion q2 and multiplying the quotient by q2
\* gives q1 back.
C4_DivideThenMultiply ==
  \A n \in CallIdx :
    (/\ n > 1
     /\ calls[n-1].op = "divide"
     /\ IsUnit(calls[n-1].q2)
     /\ calls[n].op = "multiply"
     /\ calls[n].q1 = calls[n-1].result
     /\ calls[n].q2 = calls[n-1].q2)
      => calls[n].result = calls[n-1].q1

\* C5: whatever earlier calls left in the static engines, a QCalc call returns
\* what the same call returns on freshly constructed engines, and the operands
\* given are still the operands.
C5_HistoryIndependent ==
  /\ \A n \in CallIdx :
       calls[n].result =
         QCalc_apply(calls[n].op, calls[n].q1, calls[n].q2, NewEngine, NewEngine).result
  /\ calls # << >> =>
       /\ calls[1].q1 = a
       /\ calls[1].q2 = b

\* a second call was made while the engines held something other than their
\* initial contents
C5_Witness ==
  /\ Len(calls) = 2
  /\ calls[1].result # Identity
  /\ calls[2].q1 = a
  /\ Q1 # NewEngine

-----------------------------------------------------------------------------
(* Properties of the Q holder (SpecQ) *)

\* C6: a Q always has four finite components; the constructor and the setters
\* ignore a NaN or infinite argument and keep the component's previous value
\* (0 when it was never validly assigned); a finite argument is stored.
C6_QAlwaysFinite ==
  /\ \A f \in Q_fields : isFinite(qobj[f])
  /\ qcall.m = "new" =>
       /\ qobj.w = (IF isFinite(qcall.args[1]) THEN qcall.args[1] ELSE Zero)
       /\ qobj.i = (IF isFinite(qcall.args[2]) THEN qcall.args[2] ELSE Zero)
       /\ qobj.j = (IF isFinite(qcall.args[3]) THEN qcall.args[3] ELSE Zero)
       /\ qobj.k = (IF isFinite(qcall.args[4]) THEN qcall.args[4] ELSE Zero)
  /\ qcall.m \in Q_fields =>
       IF isFinite(qcall.args[1])
       THEN qobj = [qprev EXCEPT ![qcall.m] = qcall.args[1]]
       ELSE qobj = qprev

\* a setter was given Infinity and the nonzero previous value was kept
C6_Witness ==
  /\ qcall.m = "j"
  /\ qcall.args[1] = PosInf
  /\ qobj.j = Num(-1)
  /\ qprev = qobj

-----------------------------------------------------------------------------
(* Properties of the store (Spec) *)

SameInputs(x, y) ==
  /\ x.q1 = y.q1
  /\ x.q2 = y.q2
  /\ x.op = y.op
  /\ x.result = y.result

\* C7: a TO_MEMORY carrying identity id and value v leaves the memory slice
\* holding v, id and the action TO_MEMORY, whatever it held before; for
\* onToMemory(id), v is the cached operand with that identity.
C7_StoreReplacesSlot ==
  /\ \A n \in DOMAIN dlog :
       (/\ dlog[n].action.type = TO_MEMORY
        /\ "id" \in DOMAIN dlog[n].action.payload
        /\ "memory" \in DOMAIN dlog[n].action.payload)
         => /\ ~dlog[n].threw
            /\ dlog[n].after.memory =
                 [action |-> TO_MEMORY, id |-> dlog[n].action.payload.id,
                  memory |-> dlog[n].action.payload.memory]
  /\ lastEv.name = "onToMemory" =>
       /\ ~failed
       /\ lastEv.q # UNDEF
       /\ memory = [action |-> TO_MEMORY, id |-> lastEv.id, memory |-> lastEv.q]

\* the second operand, as the user typed it, has been stored
C7_Witness ==
  /\ lastEv.name = "onToMemory"
  /\ lastEv.id = "Q_2"
  /\ memory # UNDEF
  /\ memory.id = "Q_2"
  /\ memory.memory = Q_new(Zero, One, Zero, Zero, "q2")

\* C8: a recall on a populated slot leaves the slot's value and identity as
\* they were and sets the action tag to FROM_MEMORY.
C8_RecallKeepsValue ==
  [][ (lastEv'.name = "onFromMemory" /\ memory # UNDEF)
        => /\ memory'.id = memory.id
           /\ memory'.memory = memory.memory
           /\ (~failed' => memory'.action = FROM_MEMORY) ]_vars

\* a recall has completed on a slot that holds a quaternion
C8_Witness ==
  /\ lastEv.name = "onFromMemory"
  /\ ~failed
  /\ memory # UNDEF
  /\ memory.action = FROM_MEMORY
  /\ memory.memory # UNDEF

\* C9: a recall from a slot that was never stored to completes without failure
\* and leaves the slot absent.
C9_RecallFromEmptyIsAbsent ==
  (lastEv.name = "onFromMemory" /\ memory = UNDEF) => ~failed

\* C10: a TO_MEMORY or FROM_MEMORY dispatch leaves q1, q2, op and result of the
\* inputs slice as they were before that dispatch.
C10_MemoryLeavesInputs ==
  [][ \A n \in DOMAIN dlog' :
        dlog'[n].action.type \in {TO_MEMORY, FROM_MEMORY}
          => SameInputs(IF n = 1 THEN inputs ELSE dlog'[n-1].after.inputs,
                        dlog'[n].after.inputs) ]_vars

\* the QCalc method the root component's _op names
MethodOfOp(op) ==
  CASE op = "add" -> "add"
    [] op = "sub" -> "subtract"
    [] op = "mul" -> "multiply"
    [] op = "div" -> "divide"

\* the operation op (a value of _op other than "none") applied to x and y
OpResult(op, x, y) == QCalc_apply(MethodOfOp(op), x, y, NewEngine, NewEngine).result

\* C11: after onQuaternionChanged(q) the inputs slice holds q as the operand
\* with q's id, the other operand is as it was, and the result is the current
\* operation applied to the two operands.
C11_ChangeUpdatesResult ==
  [][ lastEv'.name = "onQuaternionChanged"
        => /\ ~failed'
           /\ lastEv'.id = "q1" => (inputs'.q1 = lastEv'.q /\ inputs'.q2 = inputs.q2)
           /\ lastEv'.id = "q2" => (inputs'.q2 = lastEv'.q /\ inputs'.q1 = inputs.q1)
           /\ _op' # "none" => inputs'.result = OpResult(_op', inputs'.q1, inputs'.q2) ]_vars

\* C12: a recall from a slot filled by onToMemory completes without failure,
\* leaves the operand the slot names equal to the stored value, and leaves the
\* result equal to the current operation applied to the operands.
C12_RecallUpdatesResult ==
  (lastEv.name = "onFromMemory" /\ memory # UNDEF /\ memory.id \in MemIds)
    => /\ ~failed
       /\ memory.id = "Q_1" => inputs.q1 = memory.memory
       /\ memory.id = "Q_2" => inputs.q2 = memory.memory
       /\ _op # "none" => inputs.result = OpResult(_op, inputs.q1, inputs.q2)

\* C13: a STORE dispatch without payload leaves q1, q2, op and result of the
\* inputs slice as they were before that dispatch.
C13_UnknownActionIsNoOp ==
  [][ \A n \in DOMAIN dlog' :
        (dlog'[n].action.type = STORE /\ dlog'[n].action.payload = UNDEF)
          => /\ ~dlog'[n].threw
             /\ SameInputs(IF n = 1 THEN inputs ELSE dlog'[n-1].after.inputs,
                           dlog'[n].after.inputs) ]_vars

\* C22: in every reachable state of the application the inputs slice holds
\* defined quaternions for q1 and q2, and no reducer has failed.
C22_OperandsDefined ==
  /\ ~failed
  /\ inputs.q1 # UNDEF
  /\ inputs.q2 # UNDEF

\* the inputs states the latest event went through, and the one it left
InputsStates == {inputs} \cup { dlog[n].after.inputs : n \in DOMAIN dlog }

\* the result of state st is the operation tagged op applied to q1 and q2
ResultIs(st, op, q1, q2) ==
  IF q1 = UNDEF \/ q2 = UNDEF THEN FALSE
  ELSE st.result = OpResult(App_opToString(op), q1, q2)

\* C23: every inputs state whose action tag is Q_ADD, Q_SUBTRACT, Q_MULTIPLY or
\* Q_DIVIDE holds as result that operation applied to its own q1 and q2; and
\* the state an INIT with an arithmetic op in its payload leaves holds as
\* result that op applied to the payload's q1 and q2.
C23_ResultConsistent ==
  /\ \A st \in InputsStates :
       st.action \in ArithTypes => ResultIs(st, st.action, st.q1, st.q2)
  /\ \A n \in DOMAIN dlog :
       (dlog[n].action.type = INIT /\ ~dlog[n].threw
          /\ dlog[n].action.payload.op \in ArithTypes)
         => ResultIs(dlog[n].after.inputs, dlog[n].action.payload.op,
                     dlog[n].action.payload.q1, dlog[n].action.payload.q2)

\* after the model was loaded, a typed operand has been divided: the inputs
\* state is tagged Q_DIVIDE and its operands differ
C23_Witness ==
  /\ loaded
  /\ lastEv.name = "onQuaternionChanged"
  /\ inputs.action = Q_DIVIDE
  /\ inputs.q1 # UNDEF
  /\ inputs.q2 # UNDEF
  /\ inputs.q1.w # inputs.q2.w

\* C24: after an arithmetic action is reduced, with or without payload, the op
\* of the inputs slice is the tag of that action, the operation that produced
\* the result.
C24_OpIsRecorded ==
  \A n \in DOMAIN dlog :
    (dlog[n].action.type \in ArithTypes /\ ~dlog[n].threw)
      => dlog[n].after.inputs.op = dlog[n].action.type

\* C28: a Q_CLEAR dispatch, whatever the prior state, leaves the inputs slice
\* with q1 = q2 = result = (1,0,0,0), op = Q_NONE and action = Q_CLEAR, and
\* leaves the memory slice as it was.
C28_ClearResets ==
  [][ \A n \in DOMAIN dlog' :
        dlog'[n].action.type = Q_CLEAR
          => /\ ~dlog'[n].threw
             /\ dlog'[n].after.inputs =
                  [q1 |-> QInt(1,0,0,0), q2 |-> QInt(1,0,0,0), result |-> QInt(1,0,0,0),
                   op |-> Q_NONE, action |-> Q_CLEAR]
             /\ dlog'[n].after.memory =
                  (IF n = 1 THEN memory ELSE dlog'[n-1].after.memory) ]_vars

\* the quaternion component that shows the operand a memory id names
ComponentOf(id) ==
  CASE id = "Q_1" -> "q1"
    [] id = "Q_2" -> "q2"
    [] OTHER      -> "none"

C30_RecallTerminates ==
  lastEv.name = "onFromMemory"
    => /\ Len(dlog) \in {1, 2}
       /\ dlog[1].action.type = FROM_MEMORY
       /\ Len(dlog) = 2 => /\ dlog[2].action.type \in ArithTypes
                           /\ dlog[2].after.memory = dlog[1].after.memory

\* a recall was followed by the one arithmetic dispatch of __onMemory, and the
\* store is at rest with the memory slice still tagged FROM_MEMORY
C30_Witness ==
  /\ lastEv.name = "onFromMemory"
  /\ Len(dlog) = 2
  /\ ~dlog[2].threw
  /\ inputs.action \in ArithTypes
  /\ memory.action = FROM_MEMORY

-----------------------------------------------------------------------------
(* Properties of the engine (SpecEngine) *)

FiniteEngine(q) == \A n \in 1..4 : isFinite(q[n])

\* C14: on finite degenerate input the engine's components stay finite:
\* normalize, invert and divide on any sample including the zero quaternion,
\* fromAxisRotation on a three-number axis including the zero axis, and
\* fromRotationMatrix on a rotation matrix including the identity.
C14_EngineStaysFinite ==
  /\ ecall.op \in {"normalize", "invert", "divide"} => FiniteEngine(eng)
  /\ (ecall.op = "fromAxisRotation" /\ Len(ecall.arg) = 3) => FiniteEngine(eng)
  /\ (ecall.op = "fromRotationMatrix" /\ ecall.arg \in RotationMatrices) => FiniteEngine(eng)

\* C15: for a rotation matrix M, toRotationMatrix after fromRotationMatrix(M)
\* gives M.
C15_MatrixRoundTrip ==
  (ecall.op = "fromRotationMatrix" /\ ecall.arg \in RotationMatrices)
    => toRotationMatrix(eng) = ecall.arg

\* C16: q.slerp(q, t) has the components of q, for every t.
C16_SlerpWithSelf ==
  (ecall.op = "slerp" /\ ecall.arg = ecall.self) => ecall.ret = ecall.self

\* the norm of q is not near zero, and is a number of the model
HasNorm(q) == FiniteEngine(q) /\ SqrtExact(SumSq(q)) /\ ~NearZero(length(q))

\* C17 as stated: with norms not near zero, q1.nlerp(q2, 0) is normalize(q1)
\* and q1.nlerp(q2, 1) is normalize(q2), whatever the sign of the dot product.
C17_NlerpEndpoints ==
  (ecall.op = "nlerp" /\ HasNorm(ecall.self) /\ HasNorm(ecall.arg))
    => /\ Clamp(ecall.t) = Zero => ecall.ret = normalize(ecall.self)
       /\ Clamp(ecall.t) = One  => ecall.ret = normalize(ecall.arg)

\* C17 amended: q1.nlerp(q2, 0) is normalize(q1); q1.nlerp(q2, 1) is
\* normalize(q2) when the dot product of q1 and q2 is not negative and
\* normalize(-q2), the negated unit quaternion, when it is negative.
C17_NlerpEndpointsSigned ==
  (ecall.op = "nlerp" /\ HasNorm(ecall.self) /\ HasNorm(ecall.arg))
    => /\ Clamp(ecall.t) = Zero => ecall.ret = normalize(ecall.self)
       /\ Clamp(ecall.t) = One  =>
            ecall.ret = IF NumLt(dot(ecall.self, ecall.arg), Zero)
                        THEN normalize(multiplyByScalar(ecall.arg, Num(-1)))
                        ELSE normalize(ecall.arg)

\* (1,0,0,0).nlerp((-1,0,0,0), 1) has returned (1,0,0,0)
C17_Witness ==
  /\ ecall.op = "nlerp"
  /\ ecall.self = Eng(1,0,0,0)
  /\ ecall.arg = Eng(-1,0,0,0)
  /\ ecall.t = One
  /\ ecall.ret = Eng(1,0,0,0)

\* C18: normalize leaves a quaternion of finite components with length 1, the
\* original scaled by the reciprocal of its norm, unless the norm is below the
\* threshold, and then it leaves the components as they were.
C18_NormalizeToUnit ==
  (ecall.op = "normalize" /\ FiniteEngine(ecall.self))
    => IF NearZero(length(ecall.self))
       THEN eng = ecall.self
       ELSE /\ SqrtExact(SumSq(eng))
            /\ length(eng) = One
            /\ eng = multiplyByScalar(ecall.self, NumRecip(length(ecall.self)))

\* (0,3,0,4) has been normalized to (0, 3/5, 0, 4/5)
C18_Witness ==
  /\ ecall.op = "normalize"
  /\ ecall.self = Eng(0,3,0,4)
  /\ eng = <<Zero, Rat(3,5), Zero, Rat(4,5)>>

\* C25: invert on (w, i, j, k) with squared norm n leaves
\* (w/n, -i/n, -j/n, -k/n), in the engine's index order w, i, j, k; with n
\* below the threshold the reciprocal is 1.
C25_InvertIsConjugateOverNorm ==
  (ecall.op = "invert" /\ FiniteEngine(ecall.self))
    => \E d \in { IF NearZero(SumSq(ecall.self)) THEN One ELSE NumRecip(SumSq(ecall.self)) } :
         eng = << NumMul(ecall.self[1], d), NumMul(NumNeg(ecall.self[2]), d),
                  NumMul(NumNeg(ecall.self[3]), d), NumMul(NumNeg(ecall.self[4]), d) >>

\* C26: the value a.slerp(b, t) first assigns to ctheta and tests against 1
\* and 0 is the dot product of the four components, the value of a.dot(b).
C26_SlerpCosineIsDot ==
  ecall.op = "slerp" => slerp_ctheta(ecall.self, ecall.arg) = dot(ecall.self, ecall.arg)

\* the operations that return their result in a new engine
ResultOps == {"addTo", "subtractFrom", "multiplyInto", "divideInto", "inverse", "slerp", "nlerp"}

\* C21: after s.addTo(q), s.subtractFrom(q), s.multiplyInto(q), s.divideInto(q),
\* s.inverse(), s.slerp(q, t) or s.nlerp(q, t) with t in [0, 1], the receiver s
\* and the argument q have the components they had before the call.
C21_OperandsUnchanged ==
  (ecall.op \in ResultOps /\ NumGe(ecall.t, Zero) /\ NumGe(One, ecall.t))
    => /\ eng = ecall.self
       /\ ecall.op # "inverse" => earg = ecall.arg

-----------------------------------------------------------------------------
(* Properties of QCalc under interleaving (SpecConc) *)

\* what QCalc.<op>(q1, q2) returns when nothing else touches the engines
Alone(c) == QCalc_apply(conc[c].op, conc[c].q1, conc[c].q2, NewEngine, NewEngine).result

\* C19: when every call runs to completion before another starts, each call
\* returns the operation applied to its own two operands; the witness is an
\* interleaved run in which a call has returned something else.
C19_ExclusiveCallsAreCorrect ==
  exclusive => \A c \in Callers : conc[c].pc = "done" => conc[c].ret = Alone(c)

\* statements of two calls interleaved, and a call returned a value that is
\* not the operation applied to its operands
C19_Witness ==
  /\ ~exclusive
  /\ \E c \in Callers : conc[c].pc = "done" /\ conc[c].ret # Alone(c)

-----------------------------------------------------------------------------
(* Properties of clone (SpecClone) *)

\* what an object holds: for a QInputs, the Q objects it refers to and its strings
DeepValue(h, r) ==
  IF IsQ(h[r]) THEN h[r]
  ELSE [q1 |-> h[h[r].q1], q2 |-> h[h[r].q2], result |-> h[h[r].result],
        op |-> h[r].op, action |-> h[r].action]

\* the objects an assignment through r can touch
Reach(h, r) == IF IsQ(h[r]) THEN {r} ELSE {r, h[r].q1, h[r].q2, h[r].result}

\* C20: clone returns a new object holding what the original holds and leaves
\* the original as it was; an assignment to a component, id or op of the
\* original (or of an object it holds) leaves the clone as it was, and the
\* other way round.
C20_CloneIsIndependent ==
  [][ /\ hlast'.op = "clone" =>
           \A p \in { hclones'[Len(hclones')] } :
             /\ p.copy \notin DOMAIN heap
             /\ DeepValue(heap', p.copy) = DeepValue(heap, p.orig)
             /\ DeepValue(heap', p.orig) = DeepValue(heap, p.orig)
      /\ hlast'.op = "assign" =>
           \A n \in DOMAIN hclones :
             /\ hlast'.ref \in Reach(heap, hclones[n].orig)
                  => DeepValue(heap', hclones[n].copy) = DeepValue(heap, hclones[n].copy)
             /\ hlast'.ref \in Reach(heap, hclones[n].copy)
                  => DeepValue(heap', hclones[n].orig) = DeepValue(heap, hclones[n].orig) ]_vars

\* a QInputs was cloned, then a component of the original's q1 was assigned:
\* the original's q1 shows the new value and the clone's q1 the old one
C20_Witness ==
  /\ hclones # << >>
  /\ ~IsQ(heap[hclones[1].orig])
  /\ hlast.op = "assign"
  /\ hlast.ref = heap[hclones[1].orig].q1
  /\ hlast.field = "w"
  /\ DeepValue(heap, hclones[1].orig).q1.w = Num(7)
  /\ DeepValue(heap, hclones[1].copy).q1.w = Num(1)

-----------------------------------------------------------------------------
(* Properties of the reducers on objects (SpecReducers) *)

\* what the object at r holds, with the objects it refers to; undefined for 0
DeepObject(h, r) ==
  IF r = NoRef THEN UNDEF
  ELSE IF IsQInputs(h[r])
    THEN [q1 |-> IF h[r].q1 = NoRef THEN UNDEF ELSE h[h[r].q1],
          q2 |-> IF h[r].q2 = NoRef THEN UNDEF ELSE h[h[r].q2],
          result |-> IF h[r].result = NoRef THEN UNDEF ELSE h[h[r].result],
          op |-> h[r].op, action |-> h[r].action]
  ELSE IF IsQMemory(h[r])
    THEN [action |-> h[r].action, id |-> h[r].id,
          memory |-> IF h[r].memory = NoRef THEN UNDEF ELSE h[h[r].memory]]
  ELSE h[r]

\* C27: a reducer leaves what its prior state and its action's payload hold as
\* it was; inputReducer returns a QInputs object that is not the prior state;
\* memoryReducer returns the prior state itself for every action other than
\* TO_MEMORY and FROM_MEMORY.
C27_ReducersArePure ==
  [][ hlast'.op \in {"inputReducer", "memoryReducer"}
        => /\ DeepObject(heap', hlast'.state) = DeepObject(heap, hlast'.state)
           /\ DeepObject(heap', hlast'.payload) = DeepObject(heap, hlast'.payload)
           /\ (hlast'.op = "inputReducer" /\ ~hlast'.threw)
                => /\ hlast'.ref # hlast'.state
                   /\ hlast'.ref \in DOMAIN heap'
                   /\ IsQInputs(heap'[hlast'.ref])
           /\ (hlast'.op = "memoryReducer" /\ hlast'.field \notin {TO_MEMORY, FROM_MEMORY})
                => (~hlast'.threw /\ hlast'.ref = hlast'.state) ]_vars

\* inputReducer has reduced STORE, an action it has no case for, from the
\* prior state at 4 and returned another object; memoryReducer is not involved
C27_Witness ==
  /\ hlast.op = "inputReducer"
  /\ hlast.field = STORE
  /\ hlast.state = 4
  /\ ~hlast.threw
  /\ hlast.ref > 12
  /\ DeepObject(heap, 4).result = QInt(2, 1, 1, -1)

=============================================================================
